---------------------------- MODULE MemoryProofs ----------------------------
(***************************************************************************)
(* Proofs about the index of a project's instruction files (ProjectDocs)   *)
(* and about the memory engine (MemoryEngine), for any number of sessions, *)
(* projects, texts, domains, documents and chunks.                         *)
(***************************************************************************)
EXTENDS ProjectDocs, MemoryEngine, FiniteSetTheorems, TLAPS

-----------------------------------------------------------------------------
(* What is known in between.                                               *)

DocNumbers == 0 .. MaxDocs
Texts == DocTexts \cup {NoFile}
Row == [text : Texts, name : FileNames \cup {NoFile}]
Making == {"chunks", "meta", "hash", "cleaning"}
Placing == {"chunks", "meta", "hash", "removing", "source"}
RunState ==
    [by : DocSessions \cup {0},
     at : {"idle", "probing", "listing", "file", "chunks", "meta", "hash", "cleaning", "removing",
           "source", "next"},
     k : 0..2, prev : [FileNames -> SUBSET DocIds], before : DocNumbers, text : Texts,
     doc : DocNumbers, old : SUBSET DocIds, clean : Seq(Nat), changed : BOOLEAN,
     whole : BOOLEAN, taken : SUBSET DocTexts]
Prompt == [at : {"idle", "embedding", "searching"}, rev : Nat, cached : BOOLEAN, cachedRev : Nat,
           docs : SUBSET DocIds]

DocsTyped ==
    /\ file \in [Projects -> [FileNames -> Texts \cup {Blank}]]
    /\ docRow \in [DocIds -> Row] /\ hashRow \in [DocTexts -> DocNumbers]
    /\ chunks \in [DocIds -> SUBSET AllChunks] /\ docCount \in DocNumbers
    /\ member \in [Projects -> SUBSET DocIds]
    /\ sourceDoc \in [Projects -> [FileNames -> DocNumbers]]
    /\ indexRun \in RunState /\ revision \in Nat /\ prompt \in [DocSessions -> Prompt]
    /\ settled \in [Projects -> SUBSET Texts] /\ failedRun \in BOOLEAN
    /\ indexRun.at # "idle" => indexRun.by \in DocSessions
    /\ indexRun.at \notin {"idle", "probing", "listing"} => indexRun.k \in 1..2
    /\ indexRun.at \in Making => indexRun.doc \in DocIds /\ indexRun.text \in DocTexts

\* Vectors are stored under the contract only, and a run past its probe has one.
OneProfile ==
    /\ profiles \subseteq {contract} /\ NoProfile \notin profiles
    /\ indexRun.at \notin {"idle", "probing"} => contract = ProfileOf[indexRun.by]

\* A document that was finished: nothing writes to it again.
Kept(d) ==
    /\ d \in 1..docCount /\ docRow[d].text \in DocTexts /\ docRow[d].name \in FileNames
    /\ chunks[d] = AllChunks
    /\ ~(indexRun.at \in Making /\ indexRun.doc = d)

\* The document a run is making, as far as it is.
Made ==
    /\ \A d \in DocIds : d > docCount => docRow[d] = NoDocRow /\ chunks[d] = {}
    /\ indexRun.at \in Making => indexRun.doc <= docCount
    /\ indexRun.at \in Making => hashRow[indexRun.text] = NoDoc
    /\ indexRun.at = "chunks" => /\ docRow[indexRun.doc] = NoDocRow
                                 /\ \E c \in 0..(DocChunks - 1) : chunks[indexRun.doc] = 1..c
    /\ indexRun.at \in {"meta", "hash"} => chunks[indexRun.doc] = AllChunks
    /\ indexRun.at = "hash" => docRow[indexRun.doc] = [text |-> indexRun.text, name |-> RunFile]

\* Whatever is found through a hash, a membership or the map is finished.
FoundIsKept ==
    /\ \A x \in DocTexts : hashRow[x] # NoDoc => Kept(hashRow[x]) /\ docRow[hashRow[x]].text = x
    /\ \A p \in Projects : \A d \in member[p] : Kept(d)
    /\ \A p \in Projects : \A n \in FileNames : sourceDoc[p][n] # NoDoc => Kept(sourceDoc[p][n])
    /\ indexRun.at \in {"removing", "source"} =>
         \/ indexRun.at = "removing" /\ indexRun.doc = NoDoc /\ indexRun.text = NoFile
         \/ /\ indexRun.text \in DocTexts /\ indexRun.doc # NoDoc
            /\ hashRow[indexRun.text] = indexRun.doc

\* Without a failure a row is found by its text, or is the one being made.
RowsAreFound ==
    ~failedRun => \A d \in DocIds : docRow[d] # NoDocRow =>
        /\ docRow[d].text \in DocTexts
        /\ \/ hashRow[docRow[d].text] = d
           \/ indexRun.at \in Making /\ indexRun.doc = d /\ docRow[d].text = indexRun.text

\* A cached prompt shows what the project sees, unless the revision moved on or
\* a run that will count it has changed a membership.
PromptsAgree ==
    /\ \A s \in DocSessions :
         /\ prompt[s].rev <= revision /\ prompt[s].cachedRev <= revision
         /\ prompt[s].at = "searching" \/ prompt[s].cached => contract # NoProfile
    /\ ~failedRun => \A s \in DocSessions :
         prompt[s].cached /\ contract = ProfileOf[s] /\ prompt[s].cachedRev = revision =>
            \/ prompt[s].docs = member[ProjectOf[s]]
            \/ indexRun.at # "idle" /\ RunProject = ProjectOf[s] /\ indexRun.changed

\* The files a run has come past, and the documents their map leads to.
Past == {j \in 1..2 : j < indexRun.k \/ (j = indexRun.k /\ indexRun.at = "next")}
SourceOf(j) == sourceDoc[RunProject][Files[j]]
PastDocs == {SourceOf(j) : j \in Past} \ {NoDoc}

\* What the project may still see: what the files to come have left behind, what
\* this file's older texts have, its document, and those of the file before.
Behind ==
    (IF indexRun.at = "file" THEN indexRun.prev[RunFile] \cup {SourceOf(indexRun.k)} ELSE {})
    \cup (IF indexRun.at \in Placing THEN indexRun.old \cup {indexRun.doc} ELSE {})
    \cup (IF indexRun.k = 1 THEN indexRun.prev[Files[2]] \cup {SourceOf(2)} ELSE {})

\* A run that read every file it came past.
RunIsWhole ==
    /\ indexRun.at \in {"probing", "listing"} => indexRun.taken = {}
    /\ indexRun.whole /\ indexRun.at \in {"file", "next"} \cup Placing =>
         /\ member[RunProject] \subseteq PastDocs \cup Behind
         /\ PastDocs \subseteq member[RunProject]
         /\ indexRun.at = "source" => indexRun.doc \in member[RunProject] /\ indexRun.old = {}
         /\ \A d \in PastDocs : hashRow[docRow[d].text] = d
         /\ indexRun.taken = {docRow[d].text : d \in PastDocs}
                             \cup (IF indexRun.at \in Placing THEN {indexRun.text} \ {NoFile} ELSE {})

\* What a run has settled stays until the next run of the project.
SettledStays ==
    \A p \in Projects : settled[p] # Unsettled =>
        /\ indexRun.at # "idle" => RunProject # p
        /\ {docRow[d].text : d \in member[p]} = settled[p]
        /\ Cardinality(member[p]) = Cardinality(settled[p])

DocsInv ==
    /\ DocsTyped /\ OneProfile /\ Made /\ FoundIsKept /\ RowsAreFound /\ PromptsAgree
    /\ RunIsWhole /\ SettledStays

-----------------------------------------------------------------------------
(* Types.                                                                  *)

LEMMA FileFacts ==
    /\ FileNames = {"AGENTS.md", "SOUL.md"} /\ Len(Files) = 2
    /\ Files[1] = "AGENTS.md" /\ Files[2] = "SOUL.md"
BY DEF Files, FileNames

LEMMA IdleFacts == IdleRun \in RunState /\ IdleRun.at = "idle"
<1>1. {} \in SUBSET DocIds /\ [n \in FileNames |-> {}] \in [FileNames -> SUBSET DocIds]
  OBVIOUS
<1>2. NoDoc \in DocNumbers /\ NoFile \in Texts
  BY DocsAssumption DEF NoDoc, DocNumbers, Texts
<1>3. <<>> \in Seq(Nat)
  OBVIOUS
<1> QED
  BY <1>1, <1>2, <1>3 DEF IdleRun, RunState

LEMMA DocsInitInv == DocsInit => DocsInv
<1> SUFFICES ASSUME DocsInit PROVE DocsInv
  OBVIOUS
<1> USE DEF DocsInit
<1>1. NoDocRow \in Row /\ NoPrompt \in Prompt /\ Unsettled \in SUBSET Texts
  BY DEF NoDocRow, Row, Texts, NoPrompt, Prompt, Unsettled
<1>2. DocsTyped
  <2>1. NoDoc \in DocNumbers /\ 0 \in DocNumbers /\ 0 \in Nat
    BY DocsAssumption DEF NoDoc, DocNumbers
  <2>2. indexRun \in RunState /\ indexRun.at = "idle"
    BY IdleFacts
  <2>3. file \in [Projects -> [FileNames -> Texts \cup {Blank}]]
    BY DEF Texts
  <2> QED
    BY <1>1, <2>1, <2>2, <2>3 DEF DocsTyped, Making
<1>3. indexRun.at = "idle"
  BY IdleFacts
<1>4. OneProfile
  BY <1>3 DEF OneProfile
<1>5. Made
  BY <1>3 DEF Made, Making, DocIds
<1>6. FoundIsKept
  BY <1>3 DEF FoundIsKept
<1>7. RowsAreFound
  BY DEF RowsAreFound
<1>8. PromptsAgree
  BY DEF PromptsAgree, NoPrompt
<1>9. RunIsWhole
  BY <1>3 DEF RunIsWhole, Placing
<1>10. SettledStays
  BY DEF SettledStays
<1> QED
  BY <1>2, <1>4, <1>5, <1>6, <1>7, <1>8, <1>9, <1>10 DEF DocsInv

-----------------------------------------------------------------------------
(* Steps outside of a run, and the ends of runs.                           *)

\* The files, the contract and the prompts are not what these are about.
LEMMA StoreUntouched ==
    ASSUME DocsInv, UNCHANGED <<storeVars, indexRun, settled, failedRun>>
    PROVE  Made' /\ FoundIsKept' /\ RowsAreFound' /\ RunIsWhole' /\ SettledStays'
<1> USE DEF storeVars
<1>1. \A d : Kept(d)' <=> Kept(d)
  BY DEF Kept
<1>2. Made'
  BY DEF DocsInv, Made, RunFile
<1>3. FoundIsKept'
  BY <1>1 DEF DocsInv, FoundIsKept
<1>4. RowsAreFound'
  BY DEF DocsInv, RowsAreFound
<1>5. RunIsWhole'
  BY DEF DocsInv, RunIsWhole, PastDocs, Past, Behind, SourceOf, RunProject, RunFile
<1>6. SettledStays'
  BY DEF DocsInv, SettledStays, RunProject
<1> QED
  BY <1>2, <1>3, <1>4, <1>5, <1>6

LEMMA EditStep ==
    ASSUME DocsInv, NEW p \in Projects, NEW n \in FileNames, NEW x \in DocTexts \cup {NoFile, Blank},
           EditFile(p, n, x)
    PROVE  DocsInv'
<1>1. /\ UNCHANGED <<storeVars, indexRun, settled, failedRun>>
      /\ UNCHANGED <<docRow, hashRow, chunks, docCount, member, sourceDoc, contract, profiles,
                     revision, prompt>>
  BY DEF EditFile, storeVars, contractVars
<1>2. file' \in [Projects -> [FileNames -> Texts \cup {Blank}]]
  BY DEF EditFile, DocsInv, DocsTyped, Texts
<1>3. DocsTyped'
  BY <1>1, <1>2 DEF DocsInv, DocsTyped
<1>4. OneProfile' /\ PromptsAgree'
  BY <1>1 DEF DocsInv, OneProfile, PromptsAgree, RunProject
<1> QED
  BY <1>1, <1>3, <1>4, StoreUntouched DEF DocsInv

LEMMA PersonalStep ==
    ASSUME DocsInv, NEW s \in DocSessions, StorePersonal(s)
    PROVE  DocsInv'
<1>1. /\ UNCHANGED <<storeVars, indexRun, settled, failedRun>>
      /\ UNCHANGED <<file, docRow, hashRow, chunks, docCount, member, sourceDoc, revision, prompt>>
  BY DEF StorePersonal, storeVars
<1>2. /\ contract \in {NoProfile, ProfileOf[s]} /\ contract' = ProfileOf[s]
      /\ profiles' = profiles \cup {ProfileOf[s]} /\ ProfileOf[s] # NoProfile
  BY DocsAssumption DEF StorePersonal, ensure_embedding_contract, MatchesContract
<1>3. DocsTyped'
  BY <1>1 DEF DocsInv, DocsTyped
<1>4. OneProfile'
  <2>1. ProfileOf[indexRun.by] # NoProfile \/ indexRun.at \in {"idle", "probing"}
    BY DocsAssumption DEF DocsInv, DocsTyped
  <2> QED
    BY <1>1, <1>2, <2>1 DEF DocsInv, OneProfile
<1>5. PromptsAgree'
  BY <1>1, <1>2 DEF DocsInv, PromptsAgree, RunProject
<1> QED
  BY <1>1, <1>3, <1>4, <1>5, StoreUntouched DEF DocsInv

LEMMA PromptStep ==
    ASSUME DocsInv, NEW s \in DocSessions, PromptBegins(s) \/ PromptEmbeds(s) \/ PromptEnds(s)
    PROVE  DocsInv'
<1>1. /\ UNCHANGED <<storeVars, indexRun, settled, failedRun>>
      /\ UNCHANGED <<file, docRow, hashRow, chunks, docCount, member, sourceDoc, profiles, revision>>
  BY DEF PromptBegins, PromptEmbeds, PromptEnds, storeVars, contractVars
<1>2. /\ prompt \in [DocSessions -> Prompt] /\ prompt[s] \in Prompt /\ revision \in Nat
      /\ member[ProjectOf[s]] \in SUBSET DocIds /\ ProfileOf[s] # NoProfile
  BY DocsAssumption DEF DocsInv, DocsTyped, Projects
<1>3. PICK n \in Prompt :
        /\ prompt' = [prompt EXCEPT ![s] = n]
        /\ n.rev <= revision /\ n.cachedRev <= revision
        /\ n.at = "searching" \/ n.cached => contract' # NoProfile
        /\ \/ n.cached = prompt[s].cached /\ n.cachedRev = prompt[s].cachedRev /\ n.docs = prompt[s].docs
           \/ contract' = ProfileOf[s] => n.docs = member[ProjectOf[s]]
  <2>1. /\ prompt[s].rev <= revision /\ prompt[s].cachedRev <= revision
        /\ prompt[s].at = "searching" \/ prompt[s].cached => contract # NoProfile
    BY DEF DocsInv, PromptsAgree
  <2>2. CASE PromptBegins(s)
    <3> DEFINE n == [prompt[s] EXCEPT !.at = "embedding", !.rev = revision]
    <3>1. n \in Prompt /\ n.rev = revision /\ n.at = "embedding"
          /\ n.cached = prompt[s].cached /\ n.cachedRev = prompt[s].cachedRev /\ n.docs = prompt[s].docs
      BY <1>2 DEF Prompt
    <3>2. prompt' = [prompt EXCEPT ![s] = n] /\ contract' = contract
      BY <2>2, <1>2 DEF PromptBegins, Prompt, contractVars
    <3> HIDE DEF n
    <3>3. n.rev <= revision /\ n.cachedRev <= revision
      BY <1>2, <2>1, <3>1
    <3>4. prompt[s].at = "searching" \/ prompt[s].cached => contract # NoProfile
      BY <2>1
    <3> QED
      BY <3>1, <3>2, <3>3, <3>4, Zenon
  <2>3. CASE PromptEmbeds(s)
    <3> DEFINE n == [prompt[s] EXCEPT !.at = "searching"]
    <3>1. n \in Prompt /\ n.rev = prompt[s].rev
          /\ n.cached = prompt[s].cached /\ n.cachedRev = prompt[s].cachedRev /\ n.docs = prompt[s].docs
      BY <1>2 DEF Prompt
    <3>2. prompt' = [prompt EXCEPT ![s] = n] /\ contract' # NoProfile
      BY <2>3, <1>2 DEF PromptEmbeds, MatchesContract
    <3> HIDE DEF n
    <3> QED
      BY <2>1, <3>1, <3>2
  <2>4. CASE PromptEnds(s)
    <3> DEFINE n == [at |-> "idle", rev |-> 0, cached |-> TRUE, cachedRev |-> prompt[s].rev,
                     docs |-> IF contract = ProfileOf[s] THEN member[ProjectOf[s]] ELSE {}]
    <3>1. n \in Prompt /\ n.rev = 0 /\ n.cachedRev = prompt[s].rev /\ n.at = "idle"
          /\ (contract = ProfileOf[s] => n.docs = member[ProjectOf[s]])
      BY <1>2 DEF Prompt
    <3>2. prompt' = [prompt EXCEPT ![s] = n] /\ contract' = contract /\ contract # NoProfile
      BY <2>4, <2>1 DEF PromptEnds, contractVars
    <3> HIDE DEF n
    <3>3. n.rev <= revision /\ n.cachedRev <= revision
      BY <1>2, <2>1, <3>1
    <3>4. prompt[s].at = "searching" \/ prompt[s].cached => contract # NoProfile
      BY <2>1
    <3> QED
      BY <3>1, <3>2, <3>3, <3>4, Zenon
  <2> QED
    BY <2>2, <2>3, <2>4
<1>4. contract # NoProfile => contract' = contract
  BY DEF PromptBegins, PromptEmbeds, PromptEnds, MatchesContract, contractVars
<1>5. /\ prompt' \in [DocSessions -> Prompt] /\ prompt'[s] = n
      /\ \A t \in DocSessions : t # s => prompt'[t] = prompt[t]
  BY <1>2, <1>3
<1>6. DocsTyped'
  BY <1>1, <1>5 DEF DocsInv, DocsTyped
<1>7. OneProfile'
  <2>1. ProfileOf[indexRun.by] # NoProfile \/ indexRun.at \in {"idle", "probing"}
    BY DocsAssumption DEF DocsInv, DocsTyped
  <2> QED
    BY <1>1, <1>4, <2>1 DEF DocsInv, OneProfile
<1>8. PromptsAgree'
  <2>1. \A t \in DocSessions :
          /\ prompt'[t].rev <= revision /\ prompt'[t].cachedRev <= revision
          /\ prompt'[t].at = "searching" \/ prompt'[t].cached => contract' # NoProfile
    BY <1>3, <1>4, <1>5 DEF DocsInv, PromptsAgree
  <2>2. ASSUME ~failedRun, NEW t \in DocSessions, prompt'[t].cached, contract' = ProfileOf[t],
               prompt'[t].cachedRev = revision
        PROVE  \/ prompt'[t].docs = member[ProjectOf[t]]
               \/ indexRun.at # "idle" /\ RunProject = ProjectOf[t] /\ indexRun.changed
    BY <1>3, <1>4, <1>5, <2>2 DEF DocsInv, PromptsAgree
  <2> QED
    BY <1>1, <2>1, <2>2 DEF PromptsAgree, RunProject
<1> QED
  BY <1>1, <1>6, <1>7, <1>8, StoreUntouched DEF DocsInv

\* A run that is over has changed nothing with its last step.
LEMMA RunOver ==
    ASSUME DocsInv, UNCHANGED <<file, storeVars, contractVars>>, indexRun' = IdleRun
    PROVE  OneProfile' /\ Made' /\ FoundIsKept' /\ RunIsWhole'
<1> USE DEF storeVars, contractVars
<1>1. indexRun'.at = "idle"
  BY IdleFacts
<1>2. \A d : Kept(d) => Kept(d)'
  BY <1>1 DEF Kept, Making
<1>3. OneProfile' /\ Made' /\ RunIsWhole'
  BY <1>1 DEF DocsInv, OneProfile, Made, Making, RunIsWhole, Placing
<1>4. FoundIsKept'
  BY <1>1, <1>2 DEF DocsInv, FoundIsKept
<1> QED
  BY <1>3, <1>4

LEMMA FailStep ==
    ASSUME DocsInv, RunFails
    PROVE  DocsInv'
<1>1. /\ UNCHANGED <<file, storeVars, contractVars>> /\ indexRun' = IdleRun /\ failedRun' = TRUE
      /\ UNCHANGED <<docRow, hashRow, chunks, docCount, member, sourceDoc, contract, profiles,
                     revision, prompt, settled>>
  BY DEF RunFails, storeVars, contractVars
<1>2. indexRun'.at = "idle" /\ indexRun' \in RunState
  BY <1>1, IdleFacts
<1>3. DocsTyped'
  BY <1>1, <1>2 DEF DocsInv, DocsTyped, Making
<1>4. RowsAreFound' /\ PromptsAgree'
  BY <1>1 DEF DocsInv, RowsAreFound, PromptsAgree
<1>5. SettledStays'
  BY <1>1, <1>2 DEF DocsInv, SettledStays
<1> QED
  BY <1>1, <1>3, <1>4, <1>5, RunOver DEF DocsInv

LEMMA RebootStep ==
    ASSUME DocsInv, Reboot
    PROVE  DocsInv'
<1>1. /\ UNCHANGED <<file, storeVars, contractVars>> /\ indexRun' = IdleRun /\ revision' = 0
      /\ UNCHANGED <<docRow, hashRow, chunks, docCount, member, sourceDoc, contract, profiles, settled>>
      /\ prompt' = [s \in DocSessions |-> NoPrompt]
      /\ failedRun' = (failedRun \/ indexRun.at # "idle")
  BY DEF Reboot, storeVars, contractVars
<1>2. indexRun'.at = "idle" /\ indexRun' \in RunState
  BY <1>1, IdleFacts
<1>3. NoPrompt \in Prompt /\ NoPrompt.rev = 0 /\ NoPrompt.cachedRev = 0 /\ NoPrompt.cached = FALSE
      /\ NoPrompt.at = "idle"
  BY DEF NoPrompt, Prompt
<1>4. DocsTyped'
  <2>1. failedRun' \in BOOLEAN
    BY <1>1 DEF DocsInv, DocsTyped
  <2>2. revision' \in Nat
    BY <1>1
  <2> QED
    BY <1>1, <1>2, <1>3, <2>1, <2>2 DEF DocsInv, DocsTyped, Making
<1>5. RowsAreFound'
  BY <1>1 DEF DocsInv, RowsAreFound, Making
<1>6. PromptsAgree'
  BY <1>1, <1>3 DEF PromptsAgree
<1>7. SettledStays'
  BY <1>1, <1>2 DEF DocsInv, SettledStays
<1> QED
  BY <1>1, <1>4, <1>5, <1>6, <1>7, RunOver DEF DocsInv

\* The documents of a run that read every file are one for each text.
LEMMA WholeRun ==
    ASSUME DocsInv, indexRun.at = "next", indexRun.k = 2, indexRun.whole
    PROVE  /\ {docRow[d].text : d \in member[RunProject]} = indexRun.taken
           /\ Cardinality(member[RunProject]) = Cardinality(indexRun.taken)
<1> DEFINE M == member[RunProject]
<1> DEFINE T == indexRun.taken
<1>1. /\ M \subseteq PastDocs \cup Behind /\ PastDocs \subseteq M
      /\ \A d \in PastDocs : hashRow[docRow[d].text] = d
      /\ T = {docRow[d].text : d \in PastDocs}
  BY DEF DocsInv, RunIsWhole, Placing
<1>2. Behind = {}
  BY DEF Behind, Placing
<1>3. M = PastDocs
  BY <1>1, <1>2
<1>4. IsFiniteSet(M)
  <2>1. IsFiniteSet({SourceOf(1), SourceOf(2)})
    <3>1. IsFiniteSet({SourceOf(1)})
      BY FS_Singleton
    <3>2. IsFiniteSet({SourceOf(1)} \cup {SourceOf(2)})
      BY <3>1, FS_AddElement
    <3>3. {SourceOf(1), SourceOf(2)} = {SourceOf(1)} \cup {SourceOf(2)}
      OBVIOUS
    <3> QED
      BY <3>2, <3>3
  <2>2. M \subseteq {SourceOf(1), SourceOf(2)}
    BY <1>3 DEF PastDocs, Past
  <2> QED
    BY <2>1, <2>2, FS_Subset
<1> DEFINE f == [d \in M |-> docRow[d].text]
<1>5. f \in Bijection(M, T)
  <2>1. f \in [M -> T] /\ \A t \in T : \E d \in M : f[d] = t
    BY <1>1, <1>3
  <2>2. \A d, e \in M : f[d] = f[e] => d = e
    BY <1>1, <1>3
  <2> QED
    BY <2>1, <2>2 DEF Bijection, Injection, Surjection, IsInjective
<1>6. Cardinality(T) = Cardinality(M)
  <2>1. ExistsBijection(M, T)
    BY <1>5 DEF ExistsBijection
  <2> HIDE DEF M, T, f
  <2> QED
    BY <1>4, <2>1, FS_Bijection
<1>7. {docRow[d].text : d \in M} = T
  BY <1>1, <1>3
<1> QED
  BY <1>6, <1>7

LEMMA SuccessStep ==
    ASSUME DocsInv, RunSucceeds
    PROVE  DocsInv'
<1>1. /\ UNCHANGED <<file, storeVars, contractVars>> /\ indexRun' = IdleRun
      /\ UNCHANGED <<docRow, hashRow, chunks, docCount, member, sourceDoc, contract, profiles, prompt,
                     failedRun>>
      /\ indexRun.at = "next" /\ indexRun.k = 2
      /\ revision' = IF indexRun.changed THEN revision + 1 ELSE revision
      /\ settled' = IF indexRun.whole
                    THEN [settled EXCEPT ![RunProject] = indexRun.taken] ELSE settled
  BY FileFacts DEF RunSucceeds, storeVars, contractVars
<1>2. indexRun'.at = "idle" /\ indexRun' \in RunState
  BY <1>1, IdleFacts
<1>3. RunProject \in Projects /\ indexRun.taken \in SUBSET Texts /\ indexRun.changed \in BOOLEAN
  BY <1>1 DEF DocsInv, DocsTyped, RunState, RunProject, Projects, Texts
<1>4. revision \in Nat /\ revision' \in Nat /\ revision <= revision'
      /\ (indexRun.changed => \A r \in Nat : r <= revision => r # revision')
      /\ (~indexRun.changed => revision' = revision)
  <2>1. revision \in Nat
    BY DEF DocsInv, DocsTyped
  <2>2. CASE indexRun.changed
    BY <1>1, <2>1, <2>2
  <2>3. CASE ~indexRun.changed
    BY <1>1, <2>1, <2>3
  <2> QED
    BY <2>2, <2>3
<1>5. DocsTyped'
  <2>1. settled' \in [Projects -> SUBSET Texts]
    BY <1>1, <1>3 DEF DocsInv, DocsTyped
  <2> QED
    BY <1>1, <1>2, <1>4, <2>1 DEF DocsInv, DocsTyped, Making
<1>6. RowsAreFound'
  BY <1>1 DEF DocsInv, RowsAreFound, Making
<1>7. PromptsAgree'
  <2>1. ASSUME NEW s \in DocSessions
        PROVE  /\ prompt[s].rev <= revision' /\ prompt[s].cachedRev <= revision'
               /\ prompt[s].at = "searching" \/ prompt[s].cached => contract # NoProfile
               /\ prompt[s].cachedRev = revision' => prompt[s].cachedRev = revision /\ ~indexRun.changed
    <3>1. /\ prompt[s].rev \in Nat /\ prompt[s].cachedRev \in Nat
      BY DEF DocsInv, DocsTyped, Prompt
    <3>2. prompt[s].rev <= revision /\ prompt[s].cachedRev <= revision
      BY DEF DocsInv, PromptsAgree
    <3>3. prompt[s].at = "searching" \/ prompt[s].cached => contract # NoProfile
      BY DEF DocsInv, PromptsAgree
    <3>4. prompt[s].rev <= revision' /\ prompt[s].cachedRev <= revision'
      BY <1>4, <3>1, <3>2
    <3>5. prompt[s].cachedRev = revision' => prompt[s].cachedRev = revision /\ ~indexRun.changed
      BY <1>4, <3>1, <3>2
    <3> QED
      BY <3>3, <3>4, <3>5
  <2>2. ASSUME ~failedRun, NEW s \in DocSessions, prompt[s].cached, contract = ProfileOf[s],
               prompt[s].cachedRev = revision'
        PROVE  prompt[s].docs = member[ProjectOf[s]]
    BY <2>1, <2>2 DEF DocsInv, PromptsAgree
  <2> QED
    BY <1>1, <2>1, <2>2 DEF PromptsAgree
<1>8. SettledStays'
  <2> SUFFICES ASSUME NEW p \in Projects, settled'[p] # Unsettled
               PROVE  /\ {docRow[d].text : d \in member[p]} = settled'[p]
                      /\ Cardinality(member[p]) = Cardinality(settled'[p])
    BY <1>1, <1>2 DEF SettledStays
  <2>1. CASE indexRun.whole /\ p = RunProject
    BY <1>1, <2>1, WholeRun DEF DocsInv, DocsTyped
  <2>2. CASE ~(indexRun.whole /\ p = RunProject)
    <3>1. settled'[p] = settled[p]
      BY <1>1, <2>2 DEF DocsInv, DocsTyped
    <3> QED
      BY <3>1 DEF DocsInv, SettledStays
  <2> QED
    BY <2>1, <2>2
<1> QED
  BY <1>1, <1>5, <1>6, <1>7, <1>8, RunOver DEF DocsInv

-----------------------------------------------------------------------------
(* A run begins and goes on.                                               *)

\* The same run goes on; the memberships it changes are its project's, and it
\* takes notice of the change.
SameRun ==
    /\ indexRun.at # "idle" /\ indexRun'.at \notin {"idle", "probing"}
    /\ indexRun'.by = indexRun.by /\ (indexRun.changed => indexRun'.changed)
    /\ UNCHANGED <<file, revision, prompt, settled, failedRun>>
    /\ \A p \in Projects : p # RunProject => member'[p] = member[p]
    /\ member'[RunProject] = member[RunProject] \/ indexRun'.changed

LEMMA SameRunStep ==
    ASSUME DocsInv, SameRun, contract # NoProfile => contract' = contract,
           \A d : Kept(d) => docRow'[d] = docRow[d]
    PROVE  PromptsAgree' /\ SettledStays'
<1>1. RunProject' = RunProject /\ RunProject \in Projects
  BY DEF SameRun, RunProject, DocsInv, DocsTyped, Projects
<1>2. PromptsAgree'
  <2>1. \A s \in DocSessions : ProjectOf[s] \in Projects
    BY DEF Projects
  <2>2. \A s \in DocSessions :
          /\ prompt'[s].rev <= revision' /\ prompt'[s].cachedRev <= revision'
          /\ prompt'[s].at = "searching" \/ prompt'[s].cached => contract' # NoProfile
    BY DEF SameRun, DocsInv, PromptsAgree
  <2>3. ASSUME ~failedRun, NEW s \in DocSessions, prompt[s].cached, contract' = ProfileOf[s],
               prompt[s].cachedRev = revision
        PROVE  \/ prompt[s].docs = member'[ProjectOf[s]]
               \/ RunProject = ProjectOf[s] /\ indexRun'.changed
    <3>1. contract = ProfileOf[s]
      BY <2>3 DEF DocsInv, PromptsAgree
    <3>2. \/ prompt[s].docs = member[ProjectOf[s]]
          \/ RunProject = ProjectOf[s] /\ indexRun.changed
      BY <2>3, <3>1 DEF DocsInv, PromptsAgree
    <3> QED
      BY <2>1, <3>2 DEF SameRun
  <2> QED
    BY <1>1, <2>2, <2>3 DEF SameRun, PromptsAgree
<1>3. SettledStays'
  <2> SUFFICES ASSUME NEW p \in Projects, settled[p] # Unsettled
               PROVE  /\ RunProject # p
                      /\ {docRow'[d].text : d \in member'[p]} = settled[p]
                      /\ Cardinality(member'[p]) = Cardinality(settled[p])
    BY <1>1 DEF SettledStays, SameRun
  <2>1. RunProject # p /\ member'[p] = member[p]
    BY DEF DocsInv, SettledStays, SameRun
  <2>2. \A d \in member[p] : docRow'[d] = docRow[d]
    BY DEF DocsInv, FoundIsKept
  <2> QED
    BY <2>1, <2>2 DEF DocsInv, SettledStays
<1> QED
  BY <1>2, <1>3

\* Where nothing is stored, what was found stays found.
LEMMA FoundStays ==
    ASSUME DocsInv, UNCHANGED storeVars,
           indexRun'.at \in Making => indexRun.at \in Making /\ indexRun'.doc = indexRun.doc,
           indexRun'.at \notin {"removing", "source"}
    PROVE  FoundIsKept'
<1>1. \A d : Kept(d) => Kept(d)'
  BY DEF Kept, storeVars
<1> QED
  BY <1>1 DEF DocsInv, FoundIsKept, storeVars

LEMMA StartStep ==
    ASSUME DocsInv, NEW s \in DocSessions, StartRun(s)
    PROVE  DocsInv'
<1>1. /\ UNCHANGED storeVars /\ indexRun.at = "idle"
      /\ UNCHANGED <<file, docRow, hashRow, chunks, docCount, member, sourceDoc, contract, profiles, prompt,
                     revision, failedRun>>
      /\ settled' = [settled EXCEPT ![ProjectOf[s]] = Unsettled]
  BY DEF StartRun, storeVars, contractVars
<1>2. /\ indexRun' \in RunState /\ indexRun'.at \in {"probing", "listing"}
      /\ indexRun'.by = s /\ indexRun'.taken = {}
      /\ indexRun'.at = "listing" => contract = ProfileOf[s]
  BY IdleFacts DEF StartRun, RunState, IdleRun, MatchesContract
<1>3. DocsTyped'
  <2>1. settled' \in [Projects -> SUBSET Texts]
    BY <1>1 DEF DocsInv, DocsTyped, Unsettled, Texts
  <2> QED
    BY <1>1, <1>2, <2>1 DEF DocsInv, DocsTyped, Making
<1>4. OneProfile' /\ Made' /\ RunIsWhole'
  BY <1>1, <1>2 DEF DocsInv, OneProfile, Made, Making, RunIsWhole, Placing
<1>5. FoundIsKept'
  BY <1>1, <1>2, FoundStays DEF Making
<1>6. RowsAreFound'
  BY <1>1 DEF DocsInv, RowsAreFound, Making
<1>7. PromptsAgree'
  BY <1>1, <1>2 DEF DocsInv, PromptsAgree
<1>8. SettledStays'
  <2>1. \A p \in Projects : settled'[p] # Unsettled => p # ProjectOf[s] /\ settled'[p] = settled[p]
    BY <1>1 DEF DocsInv, DocsTyped
  <2> QED
    BY <1>1, <1>2, <2>1 DEF DocsInv, SettledStays, RunProject
<1> QED
  BY <1>3, <1>4, <1>5, <1>6, <1>7, <1>8 DEF DocsInv

\* What is the same in every step of a run past its probe.
LEMMA RunFacts ==
    ASSUME DocsInv, indexRun.at \notin {"idle", "probing", "listing"}
    PROVE  /\ indexRun \in RunState /\ indexRun.by \in DocSessions /\ indexRun.k \in 1..2
           /\ RunProject \in Projects /\ RunFile \in FileNames /\ RunFile = Files[indexRun.k]
           /\ member \in [Projects -> SUBSET DocIds] /\ member[RunProject] \in SUBSET DocIds
           /\ sourceDoc[RunProject] \in [FileNames -> DocNumbers]
           /\ sourceDoc[RunProject][RunFile] \in DocNumbers
           /\ \A j \in 1..2 : SourceOf(j) \in DocNumbers
           /\ indexRun.prev \in [FileNames -> SUBSET DocIds]
           /\ OldIds \in SUBSET DocIds
           /\ file[RunProject][RunFile] \in Texts \cup {Blank}
<1>1. indexRun \in RunState /\ indexRun.by \in DocSessions /\ indexRun.k \in 1..2
  BY DEF DocsInv, DocsTyped
<1>2. RunProject \in Projects /\ RunFile \in FileNames /\ RunFile = Files[indexRun.k]
      /\ \A j \in 1..2 : Files[j] \in FileNames
  BY <1>1, FileFacts DEF RunProject, Projects, RunFile
<1>3. sourceDoc[RunProject] \in [FileNames -> DocNumbers] /\ indexRun.prev \in [FileNames -> SUBSET DocIds]
  BY <1>1, <1>2 DEF DocsInv, DocsTyped, RunState
<1>4. sourceDoc[RunProject][RunFile] \in DocNumbers /\ \A j \in 1..2 : SourceOf(j) \in DocNumbers
  BY <1>2, <1>3 DEF SourceOf
<1>5. OldIds \in SUBSET DocIds
  BY <1>2, <1>3, <1>4 DEF OldIds, DocNumbers, DocIds, NoDoc
<1> QED
  BY <1>1, <1>2, <1>3, <1>4, <1>5 DEF DocsInv, DocsTyped

LEMMA ProbeStep ==
    ASSUME DocsInv, ProbeReturns
    PROVE  DocsInv'
<1>1. /\ UNCHANGED storeVars
      /\ UNCHANGED <<file, docRow, hashRow, chunks, docCount, member, sourceDoc, profiles, prompt,
                     revision, settled, failedRun>>
      /\ contract \in {NoProfile, ProfileOf[indexRun.by]} /\ contract' = ProfileOf[indexRun.by]
      /\ indexRun.at = "probing"
  BY DEF ProbeReturns, Goes, storeVars, ensure_embedding_contract, MatchesContract
<1>2. /\ indexRun' \in RunState /\ indexRun'.at = "listing" /\ indexRun'.by = indexRun.by
      /\ indexRun'.taken = indexRun.taken /\ indexRun'.changed = indexRun.changed
      /\ indexRun.by \in DocSessions
  BY <1>1 DEF ProbeReturns, Goes, DocsInv, DocsTyped, RunState
<1>3. DocsTyped'
  BY <1>1, <1>2 DEF DocsInv, DocsTyped, Making
<1>4. OneProfile' /\ Made' /\ RunIsWhole'
  BY <1>1, <1>2 DEF DocsInv, OneProfile, Made, Making, RunIsWhole, Placing
<1>5. FoundIsKept'
  BY <1>1, <1>2, FoundStays DEF Making
<1>6. RowsAreFound'
  BY <1>1 DEF DocsInv, RowsAreFound, Making
<1>7. PromptsAgree' /\ SettledStays'
  <2>1. SameRun
    BY <1>1, <1>2 DEF SameRun
  <2> QED
    BY <1>1, <2>1, SameRunStep
<1> QED
  BY <1>3, <1>4, <1>5, <1>6, <1>7 DEF DocsInv

LEMMA ListStep ==
    ASSUME DocsInv, ListMembers
    PROVE  DocsInv'
<1>1. /\ UNCHANGED storeVars
      /\ UNCHANGED <<file, docRow, hashRow, chunks, docCount, member, sourceDoc, contract, profiles, prompt,
                     revision, settled, failedRun>>
      /\ indexRun.at = "listing"
  BY DEF ListMembers, Goes, storeVars, contractVars
<1> DEFINE f == [n \in FileNames |-> {d \in member[RunProject] : docRow[d].name = n}]
<1>2. RunProject \in Projects /\ indexRun.by \in DocSessions
  BY <1>1 DEF DocsInv, DocsTyped, RunProject, Projects
<1>3. f \in [FileNames -> SUBSET DocIds]
  BY <1>2 DEF DocsInv, DocsTyped
<1>4. /\ indexRun' \in RunState /\ indexRun'.at = "file" /\ indexRun'.by = indexRun.by
      /\ indexRun'.taken = indexRun.taken /\ indexRun'.changed = indexRun.changed
      /\ indexRun'.k = 1 /\ indexRun'.prev = f
  <2>1. indexRun \in RunState /\ 1 \in 0..2
    BY DEF DocsInv, DocsTyped
  <2>2. indexRun' = [indexRun EXCEPT !.at = "file", !.k = 1, !.prev = f]
    BY DEF ListMembers, Goes
  <2> HIDE DEF f
  <2> QED
    BY <1>3, <2>1, <2>2 DEF RunState
<1>5. DocsTyped'
  BY <1>1, <1>2, <1>4 DEF DocsInv, DocsTyped, Making
<1>6. OneProfile' /\ Made'
  BY <1>1, <1>4 DEF DocsInv, OneProfile, Made, Making
<1>7. RunIsWhole'
  <2>1. Past' = {} /\ PastDocs' = {}
    <3>1. Past' = {}
      BY <1>4 DEF Past
    <3> QED
      BY <3>1 DEF PastDocs
  <2>2. RunFile' = Files[1] /\ RunProject' = RunProject
    BY <1>4 DEF RunFile, RunProject
  <2>3. f[Files[1]] \cup f[Files[2]] \subseteq Behind'
    BY <1>4, <2>2 DEF Behind
  <2>4. \A d \in member[RunProject] : docRow[d].name \in FileNames
    BY <1>2 DEF DocsInv, FoundIsKept, Kept
  <2>5. member[RunProject] \subseteq f[Files[1]] \cup f[Files[2]]
    BY <2>4, FileFacts
  <2>6. indexRun'.taken = {}
    BY <1>1, <1>4 DEF DocsInv, RunIsWhole
  <2> HIDE DEF f
  <2> QED
    BY <1>1, <1>4, <2>1, <2>2, <2>3, <2>5, <2>6 DEF RunIsWhole, Placing
<1>8. FoundIsKept'
  BY <1>1, <1>4, FoundStays DEF Making
<1>9. RowsAreFound'
  BY <1>1 DEF DocsInv, RowsAreFound, Making
<1>10. PromptsAgree' /\ SettledStays'
  <2>1. SameRun
    BY <1>1, <1>4 DEF SameRun
  <2> QED
    BY <1>1, <2>1, SameRunStep
<1> QED
  BY <1>5, <1>6, <1>7, <1>8, <1>9, <1>10 DEF DocsInv

LEMMA KeptIds ==
    ASSUME DocsInv, NEW d, Kept(d)
    PROVE  d \in DocIds
<1>1. d \in 1..docCount /\ docCount \in 0..MaxDocs
  BY DEF DocsInv, DocsTyped, DocNumbers, Kept
<1> QED
  BY <1>1, DocsAssumption DEF DocIds

\* A file is looked at: its older documents are listed for removal.
LEMMA TakeFile ==
    ASSUME DocsInv, indexRun.at = "file", UNCHANGED <<docRow, hashRow, member, sourceDoc>>,
           indexRun' \in RunState, indexRun'.at \in Placing \ {"source"}, indexRun'.by = indexRun.by,
           indexRun'.k = indexRun.k, indexRun'.whole = indexRun.whole, indexRun'.prev = indexRun.prev,
           OldIds \subseteq indexRun'.old \cup {indexRun'.doc},
           indexRun'.taken = indexRun.taken \cup ({indexRun'.text} \ {NoFile})
    PROVE  RunIsWhole'
<1>1. indexRun'.at # "next" /\ indexRun'.at \notin {"probing", "listing", "file", "source"}
  BY DEF Placing
<1>2. Past' = Past /\ RunProject' = RunProject /\ RunFile' = RunFile
  BY <1>1 DEF Past, RunProject, RunFile
<1>3. PastDocs' = PastDocs /\ \A j : SourceOf(j)' = SourceOf(j)
  BY <1>2 DEF PastDocs, SourceOf
<1>4. member[RunProject] \ {NoDoc} \subseteq PastDocs \cup Behind' \/ ~indexRun.whole
  <2>1. SourceOf(indexRun.k) = sourceDoc[RunProject][RunFile]
    BY DEF SourceOf, RunFile
  <2>2. Behind \ {NoDoc} \subseteq Behind'
    BY <1>1, <1>2, <1>3, <2>1 DEF Behind, OldIds, Placing
  <2> QED
    BY <2>2 DEF DocsInv, RunIsWhole
<1>5. member[RunProject] \subseteq PastDocs \cup Behind' \/ ~indexRun.whole
  <2>1. NoDoc \notin member[RunProject]
    BY RunFacts DEF DocIds, NoDoc
  <2> QED
    BY <1>4, <2>1
<1>6. indexRun.whole => /\ PastDocs \subseteq member[RunProject]
                        /\ \A d \in PastDocs : hashRow[docRow[d].text] = d
                        /\ indexRun.taken = {docRow[d].text : d \in PastDocs}
  BY DEF DocsInv, RunIsWhole, Placing
<1> QED
  BY <1>1, <1>2, <1>3, <1>5, <1>6 DEF RunIsWhole

LEMMA GoneStep ==
    ASSUME DocsInv, FileGone
    PROVE  DocsInv'
<1>1. /\ UNCHANGED storeVars /\ UNCHANGED contractVars
      /\ UNCHANGED <<file, docRow, hashRow, chunks, docCount, member, sourceDoc, contract, profiles, prompt,
                     revision, settled, failedRun>>
      /\ indexRun.at = "file"
      /\ indexRun' = [indexRun EXCEPT !.at = "removing", !.text = NoFile, !.doc = NoDoc, !.old = OldIds,
                                      !.before = sourceDoc[RunProject][RunFile]]
  BY DEF FileGone, Goes, storeVars, contractVars
<1>2. /\ indexRun' \in RunState /\ indexRun'.at = "removing" /\ indexRun'.by = indexRun.by
      /\ indexRun'.taken = indexRun.taken /\ indexRun'.changed = indexRun.changed
      /\ indexRun'.k = indexRun.k /\ indexRun'.prev = indexRun.prev /\ indexRun'.whole = indexRun.whole
      /\ indexRun'.old = OldIds /\ indexRun'.doc = NoDoc /\ indexRun'.text = NoFile
  <2>1. NoDoc \in DocNumbers /\ NoFile \in Texts
    BY DocsAssumption DEF NoDoc, DocNumbers, Texts
  <2> QED
    BY <1>1, <2>1, RunFacts DEF RunState
<1>3. DocsTyped'
  BY <1>1, <1>2 DEF DocsInv, DocsTyped, Making
<1>4. OneProfile' /\ Made'
  BY <1>1, <1>2 DEF DocsInv, OneProfile, Made, Making
<1>5. RunIsWhole'
  BY <1>1, <1>2, TakeFile DEF Placing
<1>6. FoundIsKept'
  <2>1. \A d : Kept(d) => Kept(d)'
    BY <1>1, <1>2 DEF Kept, Making
  <2> QED
    BY <1>1, <1>2, <2>1 DEF DocsInv, FoundIsKept
<1>7. RowsAreFound'
  BY <1>1 DEF DocsInv, RowsAreFound, Making
<1>8. PromptsAgree' /\ SettledStays'
  <2>1. SameRun
    BY <1>1, <1>2 DEF SameRun
  <2> QED
    BY <1>1, <2>1, SameRunStep
<1> QED
  BY <1>3, <1>4, <1>5, <1>6, <1>7, <1>8 DEF DocsInv

LEMMA KnownStep ==
    ASSUME DocsInv, FileKnown
    PROVE  DocsInv'
<1> DEFINE x == file[RunProject][RunFile]
<1>1. /\ UNCHANGED <<file, docRow, hashRow, chunks, docCount, member, sourceDoc, contract, profiles, prompt,
                     revision, settled, failedRun>>
      /\ indexRun.at = "file" /\ x \in DocTexts /\ hashRow[x] # NoDoc
      /\ indexRun' = [indexRun EXCEPT !.at = "removing", !.text = x, !.doc = hashRow[x],
                            !.taken = indexRun.taken \cup {x}, !.old = OldIds \ {hashRow[x]},
                            !.before = sourceDoc[RunProject][RunFile]]
  BY DEF FileKnown, Goes, storeVars, contractVars, Known
<1>2. /\ indexRun' \in RunState /\ indexRun'.at = "removing" /\ indexRun'.by = indexRun.by
      /\ indexRun'.taken = indexRun.taken \cup {x} /\ indexRun'.changed = indexRun.changed
      /\ indexRun'.k = indexRun.k /\ indexRun'.prev = indexRun.prev /\ indexRun'.whole = indexRun.whole
      /\ indexRun'.old = OldIds \ {hashRow[x]} /\ indexRun'.doc = hashRow[x] /\ indexRun'.text = x
  <2>1. hashRow[x] \in DocNumbers /\ x \in Texts /\ OldIds \ {hashRow[x]} \in SUBSET DocIds
        /\ indexRun.taken \cup {x} \in SUBSET DocTexts
    BY <1>1, RunFacts DEF DocsInv, DocsTyped, Texts, RunState
  <2> HIDE DEF x
  <2> QED
    BY <1>1, <2>1, RunFacts DEF RunState
<1>3. x # NoFile
  BY <1>1, DocsAssumption
<1> HIDE DEF x
<1>4. DocsTyped'
  BY <1>1, <1>2 DEF DocsInv, DocsTyped, Making
<1>5. OneProfile' /\ Made'
  BY <1>1, <1>2 DEF DocsInv, OneProfile, Made, Making
<1>6. RunIsWhole'
  <2>1. indexRun'.taken = indexRun.taken \cup ({indexRun'.text} \ {NoFile})
    BY <1>2, <1>3
  <2>2. OldIds \subseteq indexRun'.old \cup {indexRun'.doc}
    BY <1>2
  <2> QED
    BY <1>1, <1>2, <2>1, <2>2, TakeFile DEF Placing
<1>7. FoundIsKept'
  <2>1. \A d : Kept(d) => Kept(d)'
    BY <1>1, <1>2 DEF Kept, Making
  <2> QED
    BY <1>1, <1>2, <2>1 DEF DocsInv, FoundIsKept
<1>8. RowsAreFound'
  BY <1>1 DEF DocsInv, RowsAreFound, Making
<1>9. PromptsAgree' /\ SettledStays'
  <2>1. SameRun
    BY <1>1, <1>2 DEF SameRun
  <2> QED
    BY <1>1, <2>1, SameRunStep
<1> QED
  BY <1>4, <1>5, <1>6, <1>7, <1>8, <1>9 DEF DocsInv

LEMMA NewStep ==
    ASSUME DocsInv, FileNew
    PROVE  DocsInv'
<1> DEFINE x == file[RunProject][RunFile]
<1> DEFINE d == docCount + 1
<1>1. /\ UNCHANGED <<file, docRow, hashRow, chunks, member, sourceDoc, contract, profiles, prompt,
                     revision, settled, failedRun>>
      /\ indexRun.at = "file" /\ x \in DocTexts /\ ~Known(x) /\ d <= MaxDocs /\ docCount' = d
      /\ indexRun' = [indexRun EXCEPT !.at = "chunks", !.text = x, !.doc = d, !.old = OldIds,
                            !.taken = indexRun.taken \cup {x}, !.before = sourceDoc[RunProject][RunFile]]
  BY DEF FileNew, Goes, contractVars
<1>2. d \in DocIds /\ d \in DocNumbers /\ d > docCount /\ docCount \in Nat
  BY <1>1, DocsAssumption DEF DocsInv, DocsTyped, DocNumbers, DocIds
<1>3. /\ indexRun' \in RunState /\ indexRun'.at = "chunks" /\ indexRun'.by = indexRun.by
      /\ indexRun'.taken = indexRun.taken \cup {x} /\ indexRun'.changed = indexRun.changed
      /\ indexRun'.k = indexRun.k /\ indexRun'.prev = indexRun.prev /\ indexRun'.whole = indexRun.whole
      /\ indexRun'.old = OldIds /\ indexRun'.doc = d /\ indexRun'.text = x
  <2>1. x \in Texts /\ indexRun.taken \cup {x} \in SUBSET DocTexts
    BY <1>1, RunFacts DEF Texts, RunState
  <2> HIDE DEF x, d
  <2> QED
    BY <1>1, <1>2, <2>1, RunFacts DEF RunState
<1>4. hashRow[x] = NoDoc
  <2>1. hashRow[x] # NoDoc => docRow[hashRow[x]].text \in DocTexts
    BY <1>1 DEF DocsInv, FoundIsKept
  <2>2. NoDocRow.text = NoFile /\ NoFile \notin DocTexts
    BY DocsAssumption DEF NoDocRow
  <2> QED
    BY <1>1, <2>1, <2>2 DEF Known
<1>5. docRow[d] = NoDocRow /\ chunks[d] = {}
  BY <1>2 DEF DocsInv, Made
<1>6. x # NoFile
  BY <1>1, DocsAssumption
<1> HIDE DEF x
<1>7. DocsTyped'
  BY <1>1, <1>2, <1>3 DEF DocsInv, DocsTyped, Making
<1>8. OneProfile'
  BY <1>1, <1>3 DEF DocsInv, OneProfile
<1>9. Made'
  <2>1. \A e \in DocIds : e > docCount' => docRow'[e] = NoDocRow /\ chunks'[e] = {}
    BY <1>1, <1>2 DEF DocsInv, Made, DocIds
  <2>2. chunks'[indexRun'.doc] = 1..0 /\ 0 \in 0..(DocChunks - 1)
    BY <1>1, <1>3, <1>5, DocsAssumption
  <2>3. indexRun'.doc <= docCount'
    BY <1>1, <1>2, <1>3
  <2> QED
    BY <1>1, <1>3, <1>4, <1>5, <2>1, <2>2, <2>3 DEF Made
<1>10. RunIsWhole'
  <2>1. indexRun'.taken = indexRun.taken \cup ({indexRun'.text} \ {NoFile})
    BY <1>3, <1>6
  <2>2. OldIds \subseteq indexRun'.old \cup {indexRun'.doc}
    BY <1>3
  <2> QED
    BY <1>1, <1>3, <2>1, <2>2, TakeFile DEF Placing
<1>11. \A e : Kept(e) => Kept(e)' /\ docRow'[e] = docRow[e]
  BY <1>1, <1>2, <1>3 DEF Kept, Making
<1>12. FoundIsKept'
  BY <1>1, <1>3, <1>11 DEF DocsInv, FoundIsKept
<1>13. RowsAreFound'
  BY <1>1 DEF DocsInv, RowsAreFound, Making
<1>14. PromptsAgree' /\ SettledStays'
  <2>1. SameRun
    BY <1>1, <1>3 DEF SameRun
  <2> QED
    BY <1>1, <2>1, SameRunStep
<1> QED
  BY <1>7, <1>8, <1>9, <1>10, <1>12, <1>13, <1>14 DEF DocsInv

LEMMA UnreadableStep ==
    ASSUME DocsInv, FileUnreadable
    PROVE  DocsInv'
<1>1. /\ UNCHANGED storeVars
      /\ UNCHANGED <<file, docRow, hashRow, chunks, docCount, member, sourceDoc, contract, profiles, prompt,
                     revision, settled, failedRun>>
      /\ indexRun.at = "file" /\ indexRun' = [indexRun EXCEPT !.at = "next", !.whole = FALSE]
  BY DEF FileUnreadable, storeVars, contractVars
<1>2. /\ indexRun' \in RunState /\ indexRun'.at = "next" /\ indexRun'.by = indexRun.by
      /\ indexRun'.changed = indexRun.changed /\ indexRun'.k = indexRun.k /\ indexRun'.whole = FALSE
  BY <1>1, RunFacts DEF RunState
<1>3. DocsTyped'
  BY <1>1, <1>2 DEF DocsInv, DocsTyped, Making
<1>4. OneProfile' /\ Made' /\ RunIsWhole'
  BY <1>1, <1>2 DEF DocsInv, OneProfile, Made, Making, RunIsWhole
<1>5. FoundIsKept'
  BY <1>1, <1>2, FoundStays DEF Making
<1>6. RowsAreFound'
  BY <1>1 DEF DocsInv, RowsAreFound, Making
<1>7. PromptsAgree' /\ SettledStays'
  <2>1. SameRun
    BY <1>1, <1>2 DEF SameRun
  <2> QED
    BY <1>1, <2>1, SameRunStep
<1> QED
  BY <1>3, <1>4, <1>5, <1>6, <1>7 DEF DocsInv

LEMMA NextFileStep ==
    ASSUME DocsInv, NextFile
    PROVE  DocsInv'
<1>1. /\ UNCHANGED storeVars
      /\ UNCHANGED <<file, docRow, hashRow, chunks, docCount, member, sourceDoc, contract, profiles, prompt,
                     revision, settled, failedRun>>
      /\ indexRun.at = "next" /\ indexRun.k < 2
      /\ indexRun' = [indexRun EXCEPT !.at = "file", !.k = indexRun.k + 1]
  BY FileFacts DEF NextFile, Goes, storeVars, contractVars
<1>2. indexRun.k = 1
  BY <1>1, RunFacts
<1>3. /\ indexRun' \in RunState /\ indexRun'.at = "file" /\ indexRun'.by = indexRun.by
      /\ indexRun'.changed = indexRun.changed /\ indexRun'.k = 2 /\ indexRun'.whole = indexRun.whole
      /\ indexRun'.prev = indexRun.prev /\ indexRun'.taken = indexRun.taken
  <2>1. indexRun' = [indexRun EXCEPT !.at = "file", !.k = 2] /\ 2 \in 0..2
    BY <1>1, <1>2
  <2> QED
    BY <1>1, <2>1, RunFacts DEF RunState
<1>4. DocsTyped'
  BY <1>1, <1>3 DEF DocsInv, DocsTyped, Making
<1>5. OneProfile' /\ Made'
  BY <1>1, <1>3 DEF DocsInv, OneProfile, Made, Making
<1>6. RunIsWhole'
  <2>1. Past' = Past
    BY <1>1, <1>2, <1>3 DEF Past
  <2>2. RunProject' = RunProject /\ \A j : SourceOf(j)' = SourceOf(j)
    BY <1>1, <1>3 DEF RunProject, SourceOf
  <2>3. PastDocs' = PastDocs
    BY <2>1, <2>2 DEF PastDocs
  <2>4. Behind \subseteq Behind'
    BY <1>1, <1>2, <1>3, <2>2 DEF Behind, Placing, RunFile
  <2> QED
    BY <1>1, <1>3, <2>2, <2>3, <2>4 DEF DocsInv, RunIsWhole, Placing
<1>7. FoundIsKept'
  BY <1>1, <1>3, FoundStays DEF Making
<1>8. RowsAreFound'
  BY <1>1 DEF DocsInv, RowsAreFound, Making
<1>9. PromptsAgree' /\ SettledStays'
  <2>1. SameRun
    BY <1>1, <1>3 DEF SameRun
  <2> QED
    BY <1>1, <2>1, SameRunStep
<1> QED
  BY <1>4, <1>5, <1>6, <1>7, <1>8, <1>9 DEF DocsInv

-----------------------------------------------------------------------------
(* A document is made.                                                     *)

\* The file's own place does not change, nor what was found before.
LEMMA SamePlace ==
    ASSUME DocsInv, indexRun.at \in Placing \ {"source"}, indexRun'.at \in Placing \ {"source"},
           indexRun'.by = indexRun.by, indexRun'.k = indexRun.k, indexRun'.whole = indexRun.whole,
           indexRun'.prev = indexRun.prev, indexRun'.old = indexRun.old, indexRun'.doc = indexRun.doc,
           indexRun'.taken = indexRun.taken, indexRun'.text = indexRun.text,
           UNCHANGED <<member, sourceDoc>>,
           \A d : Kept(d) => docRow'[d] = docRow[d],
           \A x \in DocTexts : hashRow[x] # NoDoc => hashRow'[x] = hashRow[x]
    PROVE  RunIsWhole'
<1>1. /\ indexRun.at \notin {"next", "probing", "listing", "file", "idle"}
      /\ indexRun'.at \notin {"next", "probing", "listing", "file"}
  BY DEF Placing
<1>2. RunProject' = RunProject /\ (\A j : SourceOf(j)' = SourceOf(j)) /\ Past' = Past
  BY <1>1 DEF RunProject, SourceOf, Past
<1>3. PastDocs' = PastDocs
  BY <1>2 DEF PastDocs
<1>4. Behind' = Behind
  BY <1>1, <1>2 DEF Behind
<1>5. \A d \in PastDocs : Kept(d) /\ d # NoDoc
  <2>1. ASSUME NEW j \in Past, SourceOf(j) # NoDoc PROVE Kept(SourceOf(j))
    <3>1. j \in 1..2 /\ Files[j] \in FileNames /\ RunProject \in Projects
      BY <1>1, RunFacts, FileFacts DEF Past
    <3> QED
      BY <2>1, <3>1 DEF DocsInv, FoundIsKept, SourceOf
  <2> QED
    BY <2>1 DEF PastDocs
<1>6. \A d \in PastDocs : docRow'[d] = docRow[d] /\ docRow[d].text \in DocTexts
  BY <1>5 DEF Kept
<1>7. indexRun.whole =>
        /\ member[RunProject] \subseteq PastDocs \cup Behind
        /\ PastDocs \subseteq member[RunProject]
        /\ \A d \in PastDocs : hashRow[docRow[d].text] = d
        /\ indexRun.taken = {docRow[d].text : d \in PastDocs} \cup ({indexRun.text} \ {NoFile})
  BY DEF DocsInv, RunIsWhole
<1>8. indexRun.whole => \A d \in PastDocs : hashRow'[docRow'[d].text] = d
  BY <1>5, <1>6, <1>7
<1>9. {docRow'[d].text : d \in PastDocs} = {docRow[d].text : d \in PastDocs}
  BY <1>6
<1> QED
  BY <1>1, <1>2, <1>3, <1>4, <1>7, <1>8, <1>9 DEF RunIsWhole

LEMMA ChunkStep ==
    ASSUME DocsInv, InsertChunk
    PROVE  DocsInv'
<1> DEFINE d == indexRun.doc
<1> DEFINE i == Cardinality(chunks[d]) + 1
<1>1. /\ UNCHANGED <<file, docRow, hashRow, docCount, member, sourceDoc, contract, prompt,
                     revision, settled, failedRun>>
      /\ indexRun.at = "chunks" /\ chunks' = [chunks EXCEPT ![d] = chunks[d] \cup {i}]
      /\ profiles' = profiles \cup {ProfileOf[indexRun.by]}
      /\ indexRun' = [indexRun EXCEPT !.at = IF i = DocChunks THEN "meta" ELSE "chunks"]
  BY DEF InsertChunk, Goes
<1>2. /\ indexRun' \in RunState /\ indexRun'.at = (IF i = DocChunks THEN "meta" ELSE "chunks")
      /\ indexRun'.by = indexRun.by
      /\ indexRun'.taken = indexRun.taken /\ indexRun'.changed = indexRun.changed
      /\ indexRun'.k = indexRun.k /\ indexRun'.prev = indexRun.prev /\ indexRun'.whole = indexRun.whole
      /\ indexRun'.old = indexRun.old /\ indexRun'.doc = d /\ indexRun'.text = indexRun.text
  <2> HIDE DEF i
  <2> QED
    BY <1>1, RunFacts DEF RunState
<1>3. PICK c \in 0..(DocChunks - 1) : chunks[d] = 1..c
  BY <1>1 DEF DocsInv, Made
<1>4. Cardinality(1..c) = c
  <2>1. c \in Nat
    BY <1>3, DocsAssumption
  <2> QED
    BY <2>1, FS_Interval
<1>5. i = c + 1 /\ c + 1 \in 1..DocChunks /\ (1..c) \cup {c + 1} = 1..(c + 1)
  BY <1>3, <1>4, DocsAssumption
<1>6. d \in DocIds /\ indexRun.text \in DocTexts /\ hashRow[indexRun.text] = NoDoc /\ d <= docCount
      /\ docRow[d] = NoDocRow
  BY <1>1 DEF DocsInv, DocsTyped, Made, Making
<1>7. chunks'[d] = 1..(c + 1) /\ (\A e \in DocIds : e # d => chunks'[e] = chunks[e])
      /\ chunks' \in [DocIds -> SUBSET AllChunks]
  <2>1. chunks \in [DocIds -> SUBSET AllChunks]
    BY DEF DocsInv, DocsTyped
  <2>2. chunks' = [chunks EXCEPT ![d] = 1..(c + 1)]
    BY <1>1, <1>3, <1>5
  <2>3. 1..(c + 1) \in SUBSET AllChunks
    BY <1>3, DocsAssumption DEF AllChunks
  <2> HIDE DEF d, i
  <2> QED
    BY <2>1, <2>2, <2>3, <1>6
<1> HIDE DEF i, d
<1>8. DocsTyped'
  BY <1>1, <1>2, <1>6, <1>7 DEF DocsInv, DocsTyped, Making
<1>9. OneProfile'
  <2>1. contract = ProfileOf[indexRun.by] /\ ProfileOf[indexRun.by] # NoProfile
    BY <1>1, RunFacts, DocsAssumption DEF DocsInv, OneProfile
  <2> QED
    BY <1>1, <1>2, <2>1 DEF DocsInv, OneProfile
<1>10. Made'
  <2>1. \A e \in DocIds : e > docCount => docRow[e] = NoDocRow /\ chunks'[e] = {}
    <3>1. \A e \in DocIds : e > docCount => e # d
      BY <1>6 DEF DocIds, DocsInv, DocsTyped, DocNumbers
    <3> QED
      BY <1>7, <3>1 DEF DocsInv, Made
  <2>2. CASE i = DocChunks
    <3>1. chunks'[d] = AllChunks /\ indexRun'.at = "meta"
      BY <1>2, <1>5, <1>7, <2>2 DEF AllChunks
    <3> QED
      BY <1>1, <1>2, <1>6, <2>1, <3>1 DEF Made
  <2>3. CASE i # DocChunks
    <3>1. c + 1 \in 0..(DocChunks - 1) /\ indexRun'.at = "chunks"
      BY <1>2, <1>5, <2>3, DocsAssumption
    <3> QED
      BY <1>1, <1>2, <1>6, <1>7, <2>1, <3>1 DEF Made
  <2> QED
    BY <2>2, <2>3
<1>11. indexRun'.at \in {"chunks", "meta"}
  BY <1>2
<1>12. \A e : Kept(e) => Kept(e)' /\ docRow'[e] = docRow[e]
  BY <1>1, <1>2, <1>7, <1>11, KeptIds DEF Kept, Making, d
<1>13. RunIsWhole'
  BY <1>1, <1>2, <1>11, <1>12, SamePlace DEF Placing, d
<1>14. FoundIsKept'
  BY <1>1, <1>11, <1>12 DEF DocsInv, FoundIsKept
<1>15. RowsAreFound'
  BY <1>1, <1>2, <1>11 DEF DocsInv, RowsAreFound, Making, d
<1>16. PromptsAgree' /\ SettledStays'
  <2>1. SameRun
    BY <1>1, <1>2, <1>11 DEF SameRun
  <2> QED
    BY <1>1, <1>12, <2>1, SameRunStep
<1> QED
  BY <1>8, <1>9, <1>10, <1>13, <1>14, <1>15, <1>16 DEF DocsInv

LEMMA MetaStep ==
    ASSUME DocsInv, WriteMeta
    PROVE  DocsInv'
<1> DEFINE d == indexRun.doc
<1> DEFINE new == [text |-> indexRun.text, name |-> RunFile]
<1>1. /\ UNCHANGED <<file, hashRow, chunks, docCount, member, sourceDoc, contract, profiles, prompt,
                     revision, settled, failedRun>>
      /\ indexRun.at = "meta" /\ docRow' = [docRow EXCEPT ![d] = new]
      /\ indexRun' = [indexRun EXCEPT !.at = "hash"]
  BY DEF WriteMeta, Goes, contractVars
<1>2. /\ indexRun' \in RunState /\ indexRun'.at = "hash" /\ indexRun'.by = indexRun.by
      /\ indexRun'.taken = indexRun.taken /\ indexRun'.changed = indexRun.changed
      /\ indexRun'.k = indexRun.k /\ indexRun'.prev = indexRun.prev /\ indexRun'.whole = indexRun.whole
      /\ indexRun'.old = indexRun.old /\ indexRun'.doc = d /\ indexRun'.text = indexRun.text
  BY <1>1, RunFacts DEF RunState
<1>3. d \in DocIds /\ indexRun.text \in DocTexts /\ hashRow[indexRun.text] = NoDoc /\ d <= docCount
      /\ chunks[d] = AllChunks
  BY <1>1 DEF DocsInv, DocsTyped, Made, Making
<1>4. new \in Row /\ new.text = indexRun.text
  BY <1>1, <1>3, RunFacts DEF Row, Texts
<1>5. docRow'[d] = new /\ (\A e \in DocIds : e # d => docRow'[e] = docRow[e]) /\ docRow' \in [DocIds -> Row]
  <2> HIDE DEF new, d
  <2> QED
    BY <1>1, <1>3, <1>4 DEF DocsInv, DocsTyped
<1>6. RunFile' = RunFile
  BY <1>2 DEF RunFile
<1> HIDE DEF new, d
<1>7. DocsTyped'
  BY <1>1, <1>2, <1>3, <1>5 DEF DocsInv, DocsTyped, Making
<1>8. OneProfile'
  BY <1>1, <1>2 DEF DocsInv, OneProfile
<1>9. Made'
  <2>1. \A e \in DocIds : e > docCount => e # d
    BY <1>3 DEF DocIds, DocsInv, DocsTyped, DocNumbers
  <2>2. \A e \in DocIds : e > docCount => docRow'[e] = NoDocRow /\ chunks[e] = {}
    BY <1>5, <2>1 DEF DocsInv, Made
  <2>3. docRow'[indexRun'.doc] = [text |-> indexRun'.text, name |-> RunFile']
    BY <1>2, <1>5, <1>6 DEF new
  <2> QED
    BY <1>1, <1>2, <1>3, <2>2, <2>3 DEF Made
<1>10. \A e : Kept(e) => Kept(e)' /\ docRow'[e] = docRow[e]
  BY <1>1, <1>2, <1>5, KeptIds DEF Kept, Making, d
<1>11. RunIsWhole'
  BY <1>1, <1>2, <1>10, SamePlace DEF Placing, d
<1>12. FoundIsKept'
  BY <1>1, <1>2, <1>10 DEF DocsInv, FoundIsKept
<1>13. RowsAreFound'
  <2> SUFFICES ASSUME ~failedRun, NEW e \in DocIds, docRow'[e] # NoDocRow
               PROVE  /\ docRow'[e].text \in DocTexts
                      /\ \/ hashRow[docRow'[e].text] = e
                         \/ d = e /\ docRow'[e].text = indexRun.text
    BY <1>1, <1>2 DEF RowsAreFound, Making
  <2>1. CASE e = d
    BY <1>3, <1>4, <1>5, <2>1
  <2>2. CASE e # d
    BY <1>5, <2>2 DEF DocsInv, RowsAreFound, d
  <2> QED
    BY <2>1, <2>2
<1>14. PromptsAgree' /\ SettledStays'
  <2>1. SameRun
    BY <1>1, <1>2 DEF SameRun
  <2> QED
    BY <1>1, <1>10, <2>1, SameRunStep
<1> QED
  BY <1>7, <1>8, <1>9, <1>11, <1>12, <1>13, <1>14 DEF DocsInv

LEMMA HashStep ==
    ASSUME DocsInv, WriteHash
    PROVE  DocsInv'
<1>0. PICK d, t : d = indexRun.doc /\ t = indexRun.text
  OBVIOUS
<1>1. /\ UNCHANGED <<file, docRow, chunks, docCount, member, sourceDoc, contract, profiles, prompt,
                     revision, settled, failedRun>>
      /\ indexRun.at = "hash" /\ hashRow' = [hashRow EXCEPT ![t] = d]
      /\ indexRun' = [indexRun EXCEPT !.at = "removing"]
  BY <1>0 DEF WriteHash, Goes, contractVars
<1>2. /\ indexRun' \in RunState /\ indexRun'.at = "removing" /\ indexRun'.by = indexRun.by
      /\ indexRun'.taken = indexRun.taken /\ indexRun'.changed = indexRun.changed
      /\ indexRun'.k = indexRun.k /\ indexRun'.prev = indexRun.prev /\ indexRun'.whole = indexRun.whole
      /\ indexRun'.old = indexRun.old /\ indexRun'.doc = d /\ indexRun'.text = t
  BY <1>0, <1>1, RunFacts DEF RunState
<1>3. d \in DocIds /\ t \in DocTexts /\ hashRow[t] = NoDoc /\ d <= docCount
      /\ chunks[d] = AllChunks /\ docRow[d] = [text |-> t, name |-> RunFile]
  BY <1>0, <1>1 DEF DocsInv, DocsTyped, Made, Making
<1>4. d \in DocNumbers /\ d # NoDoc /\ d \in 1..docCount
  BY <1>3 DEF DocIds, DocNumbers, NoDoc, DocsInv, DocsTyped
<1>5. docRow[d].text = t /\ docRow[d].name \in FileNames
  BY <1>1, <1>3, RunFacts
<1>6. hashRow'[t] = d /\ (\A x \in DocTexts : x # t => hashRow'[x] = hashRow[x])
      /\ hashRow' \in [DocTexts -> DocNumbers]
  BY <1>1, <1>3, <1>4 DEF DocsInv, DocsTyped
<1>7. DocsTyped'
  BY <1>1, <1>2, <1>6 DEF DocsInv, DocsTyped, Making
<1>8. OneProfile' /\ Made'
  BY <1>1, <1>2 DEF DocsInv, OneProfile, Made, Making
<1>9. (\A e : Kept(e) => Kept(e)' /\ docRow'[e] = docRow[e]) /\ Kept(d)'
  BY <1>1, <1>2, <1>3, <1>4, <1>5 DEF Kept, Making
<1>10. RunIsWhole'
  <2>1. \A x \in DocTexts : hashRow[x] # NoDoc => hashRow'[x] = hashRow[x]
    BY <1>3, <1>6
  <2> QED
    BY <1>1, <1>2, <1>9, <2>1, <1>0, SamePlace DEF Placing
<1>11. FoundIsKept'
  <2>1. \A x \in DocTexts : (hashRow[x] # NoDoc => Kept(hashRow[x]) /\ docRow[hashRow[x]].text = x)'
    BY <1>1, <1>5, <1>6, <1>9 DEF DocsInv, FoundIsKept
  <2> QED
    BY <1>1, <1>2, <1>3, <1>4, <1>6, <1>9, <2>1 DEF DocsInv, FoundIsKept
<1>12. RowsAreFound'
  <2> SUFFICES ASSUME ~failedRun, NEW e \in DocIds, docRow[e] # NoDocRow
               PROVE  docRow[e].text \in DocTexts /\ hashRow'[docRow[e].text] = e
    BY <1>1, <1>2 DEF RowsAreFound
  <2>1. CASE e = d
    BY <1>3, <1>5, <1>6, <2>1
  <2>2. CASE e # d
    <3>1. docRow[e].text \in DocTexts /\ hashRow[docRow[e].text] = e
      BY <1>0, <2>2 DEF DocsInv, RowsAreFound
    <3>2. e # NoDoc
      BY DEF DocIds, NoDoc
    <3> QED
      BY <1>3, <1>6, <3>1, <3>2
  <2> QED
    BY <2>1, <2>2
<1>13. PromptsAgree' /\ SettledStays'
  <2>1. SameRun
    BY <1>1, <1>2 DEF SameRun
  <2> QED
    BY <1>1, <1>9, <2>1, SameRunStep
<1> QED
  BY <1>7, <1>8, <1>10, <1>11, <1>12, <1>13 DEF DocsInv

LEMMA DocumentFailsStep ==
    ASSUME DocsInv, DocumentFails
    PROVE  DocsInv'
<1> DEFINE rest == (IF indexRun.at = "chunks" THEN <<>> ELSE <<0>>) \o [i \in AllChunks |-> i]
<1>1. /\ UNCHANGED <<file, storeVars, contract, profiles, prompt, revision, settled, failedRun>>
      /\ UNCHANGED <<docRow, hashRow, chunks, docCount, member, sourceDoc>>
      /\ indexRun.at \in {"chunks", "meta", "hash"}
      /\ indexRun' = [indexRun EXCEPT !.at = "cleaning", !.clean = rest]
  BY DEF DocumentFails, contractVars, storeVars
<1>2. rest \in Seq(Nat)
  <2>1. [i \in AllChunks |-> i] \in Seq(Nat)
    BY DocsAssumption DEF AllChunks
  <2>2. <<>> \in Seq(Nat) /\ <<0>> \in Seq(Nat)
    OBVIOUS
  <2> QED
    BY <2>1, <2>2
<1>3. /\ indexRun' \in RunState /\ indexRun'.at = "cleaning" /\ indexRun'.by = indexRun.by
      /\ indexRun'.changed = indexRun.changed /\ indexRun'.k = indexRun.k
      /\ indexRun'.doc = indexRun.doc /\ indexRun'.text = indexRun.text
  <2> HIDE DEF rest
  <2> QED
    BY <1>1, <1>2, RunFacts DEF RunState
<1>4. DocsTyped'
  BY <1>1, <1>3 DEF DocsInv, DocsTyped, Making
<1>5. OneProfile' /\ Made' /\ RunIsWhole'
  BY <1>1, <1>3 DEF DocsInv, OneProfile, Made, Making, RunIsWhole, Placing
<1>6. FoundIsKept'
  BY <1>1, <1>3, FoundStays DEF Making
<1>7. RowsAreFound'
  BY <1>1, <1>3 DEF DocsInv, RowsAreFound, Making
<1>8. PromptsAgree' /\ SettledStays'
  <2>1. SameRun
    BY <1>1, <1>3 DEF SameRun
  <2> QED
    BY <1>1, <2>1, SameRunStep
<1> QED
  BY <1>4, <1>5, <1>6, <1>7, <1>8 DEF DocsInv

LEMMA CleanStep ==
    ASSUME DocsInv, NEW ok \in BOOLEAN, CleanOne(ok)
    PROVE  DocsInv'
<1> DEFINE d == indexRun.doc
<1>1. /\ UNCHANGED <<file, hashRow, docCount, member, sourceDoc, contract, profiles, prompt, revision,
                     settled, failedRun>>
      /\ indexRun.at = "cleaning" /\ indexRun.clean # <<>>
      /\ indexRun' = [indexRun EXCEPT !.clean = Tail(indexRun.clean)]
  BY DEF CleanOne, contractVars
<1>2. /\ indexRun' \in RunState /\ indexRun'.at = "cleaning" /\ indexRun'.by = indexRun.by
      /\ indexRun'.changed = indexRun.changed /\ indexRun'.k = indexRun.k
      /\ indexRun'.doc = d /\ indexRun'.text = indexRun.text
  <2>1. Tail(indexRun.clean) \in Seq(Nat)
    BY <1>1, RunFacts DEF RunState
  <2> QED
    BY <1>1, <2>1, RunFacts DEF RunState
<1>3. d \in DocIds /\ d <= docCount /\ hashRow[indexRun.text] = NoDoc /\ indexRun.text \in DocTexts
  BY <1>1 DEF DocsInv, DocsTyped, Made, Making
<1>4. PICK i : /\ docRow' = docRow \/ docRow' = [docRow EXCEPT ![d] = NoDocRow]
               /\ chunks' = chunks \/ chunks' = [chunks EXCEPT ![d] = chunks[d] \ {i}]
  BY DEF CleanOne
<1> HIDE DEF d
<1>5. /\ docRow' \in [DocIds -> Row] /\ (\A e \in DocIds : e # d => docRow'[e] = docRow[e])
      /\ docRow'[d] \in {docRow[d], NoDocRow}
  <2>1. docRow \in [DocIds -> Row] /\ NoDocRow \in Row
    BY DEF DocsInv, DocsTyped, NoDocRow, Row, Texts
  <2>2. CASE docRow' = docRow
    BY <2>1, <2>2
  <2>3. CASE docRow' = [docRow EXCEPT ![d] = NoDocRow]
    BY <1>3, <2>1, <2>3
  <2> QED
    BY <1>4, <2>2, <2>3
<1>6. chunks' \in [DocIds -> SUBSET AllChunks] /\ (\A e \in DocIds : e # d => chunks'[e] = chunks[e])
  <2>1. chunks \in [DocIds -> SUBSET AllChunks]
    BY DEF DocsInv, DocsTyped
  <2>2. CASE chunks' = chunks
    BY <2>1, <2>2
  <2>3. CASE chunks' = [chunks EXCEPT ![d] = chunks[d] \ {i}]
    BY <1>3, <2>1, <2>3
  <2> QED
    BY <1>4, <2>2, <2>3
<1>7. DocsTyped'
  BY <1>1, <1>2, <1>3, <1>5, <1>6 DEF DocsInv, DocsTyped, Making
<1>8. OneProfile' /\ RunIsWhole'
  BY <1>1, <1>2 DEF DocsInv, OneProfile, RunIsWhole, Placing
<1>9. Made'
  <2>1. \A e \in DocIds : e > docCount => e # d
    BY <1>3 DEF DocIds, DocsInv, DocsTyped, DocNumbers
  <2>2. \A e \in DocIds : e > docCount => docRow'[e] = NoDocRow /\ chunks'[e] = {}
    BY <1>5, <1>6, <2>1 DEF DocsInv, Made
  <2> QED
    BY <1>1, <1>2, <1>3, <2>2 DEF Made
<1>10. \A e : Kept(e) => Kept(e)' /\ docRow'[e] = docRow[e]
  BY <1>1, <1>2, <1>5, <1>6, KeptIds DEF Kept, Making, d
<1>11. FoundIsKept'
  BY <1>1, <1>2, <1>10 DEF DocsInv, FoundIsKept
<1>12. RowsAreFound'
  BY <1>1, <1>2, <1>5 DEF DocsInv, RowsAreFound, Making, d
<1>13. PromptsAgree' /\ SettledStays'
  <2>1. SameRun
    BY <1>1, <1>2 DEF SameRun
  <2> QED
    BY <1>1, <1>10, <2>1, SameRunStep
<1> QED
  BY <1>7, <1>8, <1>9, <1>11, <1>12, <1>13 DEF DocsInv

-----------------------------------------------------------------------------
(* Memberships and the map.                                                *)

\* The documents of the files that were come past are finished.
LEMMA PastIsKept ==
    ASSUME DocsInv, indexRun.at \notin {"idle", "probing", "listing"}
    PROVE  \A d \in PastDocs : Kept(d)
<1>1. ASSUME NEW j \in Past, SourceOf(j) # NoDoc PROVE Kept(SourceOf(j))
  <2>1. j \in 1..2 /\ Files[j] \in FileNames /\ RunProject \in Projects
    BY RunFacts, FileFacts DEF Past
  <2> QED
    BY <1>1, <2>1 DEF DocsInv, FoundIsKept, SourceOf
<1> QED
  BY <1>1 DEF PastDocs

LEMMA RemoveStep ==
    ASSUME DocsInv, NEW d \in DocIds, RemoveOld(d)
    PROVE  DocsInv'
<1> DEFINE drop == ~Referenced(d) /\ d \in member[RunProject]
<1>1. /\ UNCHANGED <<file, docRow, hashRow, chunks, docCount, sourceDoc, contract, profiles, prompt,
                     revision, settled, failedRun>>
      /\ indexRun.at = "removing"
      /\ member' = IF drop THEN [member EXCEPT ![RunProject] = member[RunProject] \ {d}] ELSE member
      /\ indexRun' = [indexRun EXCEPT !.old = indexRun.old \ {d}, !.changed = indexRun.changed \/ drop]
  BY DEF RemoveOld, Goes, contractVars
<1>2. /\ indexRun' \in RunState /\ indexRun'.at = "removing" /\ indexRun'.by = indexRun.by
      /\ indexRun'.taken = indexRun.taken /\ (indexRun'.changed <=> indexRun.changed \/ drop)
      /\ indexRun'.k = indexRun.k /\ indexRun'.prev = indexRun.prev /\ indexRun'.whole = indexRun.whole
      /\ indexRun'.old = indexRun.old \ {d} /\ indexRun'.doc = indexRun.doc
      /\ indexRun'.text = indexRun.text
  <2>1. indexRun.old \ {d} \in SUBSET DocIds /\ (indexRun.changed \/ drop) \in BOOLEAN
    BY <1>1, RunFacts DEF RunState
  <2> HIDE DEF drop
  <2> QED
    BY <1>1, <2>1, RunFacts DEF RunState
<1>3. /\ member' \in [Projects -> SUBSET DocIds]
      /\ \A p \in Projects : p # RunProject => member'[p] = member[p]
      /\ member'[RunProject] = IF drop THEN member[RunProject] \ {d} ELSE member[RunProject]
  <2> HIDE DEF drop
  <2>1. CASE drop
    BY <1>1, <2>1, RunFacts
  <2>2. CASE ~drop
    BY <1>1, <2>2, RunFacts
  <2> QED
    BY <2>1, <2>2
<1>4. DocsTyped'
  BY <1>1, <1>2, <1>3 DEF DocsInv, DocsTyped, Making
<1>5. OneProfile' /\ Made'
  BY <1>1, <1>2 DEF DocsInv, OneProfile, Made, Making
<1>6. \A e : Kept(e) => Kept(e)' /\ docRow'[e] = docRow[e]
  BY <1>1, <1>2 DEF Kept, Making
<1>7. \A p \in Projects : member'[p] \subseteq member[p]
  BY <1>3
<1>8. FoundIsKept'
  BY <1>1, <1>2, <1>6, <1>7 DEF DocsInv, FoundIsKept
<1>9. RowsAreFound'
  BY <1>1 DEF DocsInv, RowsAreFound, Making
<1>10. RunIsWhole'
  <2>1. RunProject' = RunProject /\ (\A j : SourceOf(j)' = SourceOf(j)) /\ Past' = Past
    BY <1>1, <1>2 DEF RunProject, SourceOf, Past
  <2>2. PastDocs' = PastDocs
    BY <2>1 DEF PastDocs
  <2>3. Behind \ {d} \subseteq Behind'
    BY <1>1, <1>2, <2>1 DEF Behind
  <2>4. ASSUME Referenced(d) PROVE d \in PastDocs \cup Behind'
    <3>1. PICK n \in FileNames \ {RunFile} : sourceDoc[RunProject][n] = d
      BY <2>4 DEF Referenced
    <3>2. d # NoDoc
      BY DEF DocIds, NoDoc
    <3>3. CASE indexRun.k = 1
      <4>1. n = Files[2]
        BY <3>3, FileFacts DEF RunFile
      <4> QED
        BY <1>2, <2>1, <3>1, <3>3, <4>1 DEF Behind, SourceOf
    <3>4. CASE indexRun.k = 2
      <4>1. n = Files[1] /\ 1 \in Past
        BY <3>4, FileFacts DEF RunFile, Past
      <4> QED
        BY <3>1, <3>2, <4>1 DEF PastDocs, SourceOf
    <3> QED
      BY <1>1, <3>3, <3>4, RunFacts
  <2>5. d \in PastDocs => Referenced(d)
    <3> SUFFICES ASSUME NEW j \in Past, SourceOf(j) = d PROVE Referenced(d)
      BY DEF PastDocs
    <3>1. j = 1 /\ indexRun.k = 2
      BY <1>1, RunFacts DEF Past
    <3> QED
      BY <3>1, FileFacts DEF Referenced, SourceOf, RunFile
  <2>6. indexRun.whole =>
        /\ member[RunProject] \subseteq PastDocs \cup Behind
        /\ PastDocs \subseteq member[RunProject]
        /\ \A e \in PastDocs : hashRow[docRow[e].text] = e
        /\ indexRun.taken = {docRow[e].text : e \in PastDocs} \cup ({indexRun.text} \ {NoFile})
    BY <1>1 DEF DocsInv, RunIsWhole, Placing
  <2>7. indexRun.whole => member'[RunProject] \subseteq PastDocs \cup Behind'
    BY <1>3, <2>3, <2>4, <2>6
  <2>8. indexRun.whole => PastDocs \subseteq member'[RunProject]
    BY <1>3, <2>5, <2>6
  <2> QED
    BY <1>1, <1>2, <2>1, <2>2, <2>6, <2>7, <2>8 DEF RunIsWhole, Placing
<1>11. PromptsAgree' /\ SettledStays'
  <2>1. SameRun
    BY <1>1, <1>2, <1>3 DEF SameRun
  <2> QED
    BY <1>1, <2>1, SameRunStep
<1> QED
  BY <1>4, <1>5, <1>8, <1>9, <1>10, <1>11 DEF DocsInv

LEMMA AddStep ==
    ASSUME DocsInv, AddMember
    PROVE  DocsInv'
<1>0. PICK d : d = indexRun.doc
  OBVIOUS
<1> DEFINE fresh == d \notin member[RunProject]
<1>1. /\ UNCHANGED <<file, docRow, hashRow, chunks, docCount, sourceDoc, contract, profiles, prompt,
                     revision, settled, failedRun>>
      /\ indexRun.at = "removing" /\ indexRun.old = {} /\ d # NoDoc
      /\ member' = [member EXCEPT ![RunProject] = member[RunProject] \cup {d}]
      /\ indexRun' = [indexRun EXCEPT !.at = "source", !.changed = indexRun.changed \/ fresh]
  BY <1>0 DEF AddMember, Goes, contractVars
<1>2. /\ indexRun' \in RunState /\ indexRun'.at = "source" /\ indexRun'.by = indexRun.by
      /\ indexRun'.taken = indexRun.taken /\ (indexRun'.changed <=> indexRun.changed \/ fresh)
      /\ indexRun'.k = indexRun.k /\ indexRun'.prev = indexRun.prev /\ indexRun'.whole = indexRun.whole
      /\ indexRun'.old = {} /\ indexRun'.doc = d /\ indexRun'.text = indexRun.text
  <2>1. (indexRun.changed \/ fresh) \in BOOLEAN
    BY <1>1, RunFacts DEF RunState
  <2> HIDE DEF fresh
  <2> QED
    BY <1>0, <1>1, <2>1, RunFacts DEF RunState
<1>3. indexRun.text \in DocTexts /\ hashRow[indexRun.text] = d /\ Kept(d) /\ d \in DocIds
  <2>1. indexRun.text \in DocTexts /\ hashRow[indexRun.text] = d
    BY <1>0, <1>1 DEF DocsInv, FoundIsKept
  <2>2. Kept(d)
    BY <1>1, <2>1 DEF DocsInv, FoundIsKept
  <2> QED
    BY <2>1, <2>2, KeptIds
<1>4. /\ member' \in [Projects -> SUBSET DocIds]
      /\ \A p \in Projects : p # RunProject => member'[p] = member[p]
      /\ member'[RunProject] = member[RunProject] \cup {d}
  BY <1>1, <1>3, RunFacts
<1>5. DocsTyped'
  BY <1>1, <1>2, <1>4 DEF DocsInv, DocsTyped, Making
<1>6. OneProfile' /\ Made'
  BY <1>1, <1>2 DEF DocsInv, OneProfile, Made, Making
<1>7. \A e : Kept(e) => Kept(e)' /\ docRow'[e] = docRow[e]
  BY <1>1, <1>2 DEF Kept, Making
<1>8. FoundIsKept'
  <2>1. \A p \in Projects : \A e \in member'[p] : Kept(e)
    BY <1>3, <1>4 DEF DocsInv, FoundIsKept
  <2> QED
    BY <1>1, <1>2, <1>3, <1>7, <2>1 DEF DocsInv, FoundIsKept
<1>9. RowsAreFound'
  BY <1>1 DEF DocsInv, RowsAreFound, Making
<1>10. RunIsWhole'
  <2>1. RunProject' = RunProject /\ (\A j : SourceOf(j)' = SourceOf(j)) /\ Past' = Past
    BY <1>1, <1>2 DEF RunProject, SourceOf, Past
  <2>2. PastDocs' = PastDocs
    BY <2>1 DEF PastDocs
  <2>3. Behind' = Behind /\ d \in Behind
    BY <1>0, <1>1, <1>2, <2>1 DEF Behind, Placing
  <2>4. indexRun.whole =>
        /\ member[RunProject] \subseteq PastDocs \cup Behind
        /\ PastDocs \subseteq member[RunProject]
        /\ \A e \in PastDocs : hashRow[docRow[e].text] = e
        /\ indexRun.taken = {docRow[e].text : e \in PastDocs} \cup ({indexRun.text} \ {NoFile})
    BY <1>1 DEF DocsInv, RunIsWhole, Placing
  <2> QED
    BY <1>1, <1>2, <1>4, <2>1, <2>2, <2>3, <2>4 DEF RunIsWhole, Placing
<1>11. PromptsAgree' /\ SettledStays'
  <2>1. SameRun
    BY <1>1, <1>2, <1>4 DEF SameRun
  <2> QED
    BY <1>1, <2>1, SameRunStep
<1> QED
  BY <1>5, <1>6, <1>8, <1>9, <1>10, <1>11 DEF DocsInv

LEMMA SourceStep ==
    ASSUME DocsInv, SetSource
    PROVE  DocsInv'
<1>0. PICK d, p, n : d = indexRun.doc /\ p = RunProject /\ n = RunFile
  OBVIOUS
<1> DEFINE moved == indexRun.before # d
<1>1. /\ UNCHANGED <<file, docRow, hashRow, chunks, docCount, member, contract, profiles, prompt,
                     revision, settled, failedRun>>
      /\ indexRun.at \in {"removing", "source"}
      /\ indexRun.at = "removing" => indexRun.old = {} /\ d = NoDoc
      /\ sourceDoc' = [sourceDoc EXCEPT ![p][n] = d]
      /\ indexRun' = [indexRun EXCEPT !.at = "next", !.changed = indexRun.changed \/ moved]
  BY <1>0 DEF SetSource, Goes, contractVars
<1>2. /\ indexRun' \in RunState /\ indexRun'.at = "next" /\ indexRun'.by = indexRun.by
      /\ indexRun'.taken = indexRun.taken /\ (indexRun'.changed <=> indexRun.changed \/ moved)
      /\ indexRun'.k = indexRun.k /\ indexRun'.prev = indexRun.prev /\ indexRun'.whole = indexRun.whole
  <2>1. (indexRun.changed \/ moved) \in BOOLEAN
    BY <1>1, RunFacts DEF RunState
  <2> HIDE DEF moved
  <2> QED
    BY <1>1, <2>1, RunFacts DEF RunState
<1>3. /\ p \in Projects /\ n \in FileNames /\ n = Files[indexRun.k] /\ indexRun.k \in 1..2
      /\ d \in DocNumbers
  BY <1>0, <1>1, RunFacts DEF RunState
<1>4. /\ sourceDoc' \in [Projects -> [FileNames -> DocNumbers]] /\ sourceDoc'[p][n] = d
      /\ \A q \in Projects : \A m \in FileNames : (q # p \/ m # n) => sourceDoc'[q][m] = sourceDoc[q][m]
  BY <1>1, <1>3 DEF DocsInv, DocsTyped
<1>5. d # NoDoc => /\ indexRun.at = "source" /\ indexRun.text \in DocTexts
                   /\ hashRow[indexRun.text] = d /\ Kept(d) /\ docRow[d].text = indexRun.text
  <2>1. d # NoDoc => /\ indexRun.at = "source" /\ indexRun.text \in DocTexts
                     /\ hashRow[indexRun.text] = d
    BY <1>0, <1>1 DEF DocsInv, FoundIsKept
  <2> QED
    BY <2>1 DEF DocsInv, FoundIsKept
<1>6. DocsTyped'
  BY <1>1, <1>2, <1>4 DEF DocsInv, DocsTyped, Making
<1>7. OneProfile' /\ Made'
  BY <1>1, <1>2 DEF DocsInv, OneProfile, Made, Making
<1>8. \A e : Kept(e) => Kept(e)' /\ docRow'[e] = docRow[e]
  BY <1>1, <1>2 DEF Kept, Making
<1>9. FoundIsKept'
  <2>1. \A q \in Projects : \A m \in FileNames : sourceDoc'[q][m] # NoDoc => Kept(sourceDoc'[q][m])
    BY <1>4, <1>5 DEF DocsInv, FoundIsKept
  <2>2. \A q \in Projects : \A m \in FileNames : (sourceDoc[q][m] # NoDoc => Kept(sourceDoc[q][m]))'
    BY <1>8, <2>1
  <2> QED
    BY <1>1, <1>2, <1>8, <2>2 DEF DocsInv, FoundIsKept
<1>10. RowsAreFound'
  BY <1>1 DEF DocsInv, RowsAreFound, Making
<1>11. RunIsWhole'
  <2>1. RunProject' = p /\ Past' = Past \cup {indexRun.k} /\ indexRun.k \notin Past
    BY <1>0, <1>1, <1>2, <1>3 DEF RunProject, Past
  <2>2. SourceOf(indexRun.k)' = d /\ \A j \in 1..2 : j # indexRun.k => SourceOf(j)' = SourceOf(j)
    <3>1. \A j \in 1..2 : Files[j] \in FileNames /\ (j # indexRun.k => Files[j] # n)
      BY <1>3, FileFacts
    <3>2. \A j : SourceOf(j)' = sourceDoc'[p][Files[j]] /\ SourceOf(j) = sourceDoc[p][Files[j]]
      BY <1>0, <2>1 DEF SourceOf
    <3>3. PICK k : k = indexRun.k
      OBVIOUS
    <3>4. SourceOf(k)' = d
      BY <1>3, <1>4, <3>2, <3>3
    <3>5. \A j \in 1..2 : j # k => SourceOf(j)' = SourceOf(j)
      BY <1>3, <1>4, <3>1, <3>2, <3>3
    <3> QED
      BY <1>2, <3>3, <3>4, <3>5
  <2>3. PastDocs' = PastDocs \cup ({d} \ {NoDoc})
    <3>1. \A j \in Past : j \in 1..2 /\ j # indexRun.k
      BY <2>1 DEF Past
    <3>2. \A j \in Past : SourceOf(j)' = SourceOf(j)
      BY <2>2, <3>1
    <3>3. PICK k : k = indexRun.k
      OBVIOUS
    <3>4. SourceOf(k)' = d /\ Past' = Past \cup {k}
      BY <1>2, <2>1, <2>2, <3>3
    <3>5. \A e : e \in PastDocs' <=> (\E j \in Past' : e = SourceOf(j)') /\ e # NoDoc
      BY DEF PastDocs
    <3>6. \A e : e \in PastDocs <=> (\E j \in Past : e = SourceOf(j)) /\ e # NoDoc
      BY DEF PastDocs
    <3> QED
      BY <3>2, <3>4, <3>5, <3>6
  <2>4. indexRun.whole =>
        /\ member[p] \subseteq PastDocs \cup Behind
        /\ PastDocs \subseteq member[p]
        /\ \A e \in PastDocs : hashRow[docRow[e].text] = e
        /\ indexRun.at = "source" => d \in member[p] /\ indexRun.old = {}
        /\ indexRun.taken = {docRow[e].text : e \in PastDocs} \cup ({indexRun.text} \ {NoFile})
    BY <1>0, <1>1 DEF DocsInv, RunIsWhole, Placing
  <2>5. indexRun.whole => Behind \subseteq Behind' \cup {d}
    <3>1. indexRun.whole => indexRun.old = {}
      BY <1>1, <2>4
    <3>2. indexRun.k = 1 => SourceOf(2)' = SourceOf(2)
      BY <2>2
    <3> QED
      BY <1>0, <1>1, <1>2, <3>1, <3>2 DEF Behind
  <2>6. NoDoc \notin member[p]
    BY <1>0, <1>1, RunFacts DEF DocIds, NoDoc
  <2>7. indexRun.text = NoFile <=> d = NoDoc
    BY <1>0, <1>1, <1>5, DocsAssumption DEF DocsInv, FoundIsKept
  <2>8. {docRow[e].text : e \in PastDocs'} = {docRow[e].text : e \in PastDocs} \cup ({indexRun.text} \ {NoFile})
    BY <1>5, <2>3, <2>7
  <2>9. indexRun.whole => /\ member[p] \subseteq PastDocs' \cup Behind'
                          /\ PastDocs' \subseteq member[p]
                          /\ \A e \in PastDocs' : hashRow[docRow[e].text] = e
    BY <1>5, <2>3, <2>4, <2>5, <2>6
  <2> QED
    BY <1>1, <1>2, <2>1, <2>4, <2>8, <2>9 DEF RunIsWhole, Placing
<1>12. PromptsAgree' /\ SettledStays'
  <2>1. SameRun
    BY <1>1, <1>2 DEF SameRun
  <2> QED
    BY <1>1, <2>1, SameRunStep
<1> QED
  BY <1>6, <1>7, <1>9, <1>10, <1>11, <1>12 DEF DocsInv

-----------------------------------------------------------------------------

LEMMA DocsNextInv == DocsInv /\ [DocsNext]_docVars => DocsInv'
<1> SUFFICES ASSUME DocsInv, [DocsNext]_docVars PROVE DocsInv'
  OBVIOUS
<1>1. CASE UNCHANGED docVars
  <2>1. UNCHANGED <<file, docRow, hashRow, chunks, docCount, member, sourceDoc, contract, profiles, prompt,
                    revision, indexRun, settled, failedRun, storeVars>>
    BY <1>1 DEF docVars, storeVars, contractVars
  <2>2. DocsTyped' /\ OneProfile' /\ PromptsAgree'
    BY <2>1 DEF DocsInv, DocsTyped, OneProfile, PromptsAgree, RunProject
  <2> QED
    BY <2>1, <2>2, StoreUntouched DEF DocsInv
<1>2. ASSUME NEW p \in Projects, NEW n \in FileNames, NEW x \in DocTexts \cup {NoFile, Blank},
             EditFile(p, n, x)
      PROVE  DocsInv'
  BY <1>2, EditStep
<1>3. ASSUME NEW s \in DocSessions,
             StorePersonal(s) \/ StartRun(s) \/ PromptBegins(s) \/ PromptEmbeds(s) \/ PromptEnds(s)
      PROVE  DocsInv'
  BY <1>3, PersonalStep, StartStep, PromptStep
<1>4. CASE Reboot
  BY <1>4, RebootStep
<1>5. CASE RunRefused \/ CallFailsInRun \/ CleanEnds
  BY <1>5, FailStep DEF RunRefused, CallFailsInRun, CleanEnds
<1>6. CASE ProbeReturns \/ ListMembers \/ FileGone \/ FileUnreadable \/ FileKnown \/ FileNew
  BY <1>6, ProbeStep, ListStep, GoneStep, UnreadableStep, KnownStep, NewStep
<1>7. CASE InsertChunk \/ WriteMeta \/ WriteHash \/ DocumentFails \/ \E ok \in BOOLEAN : CleanOne(ok)
  BY <1>7, ChunkStep, MetaStep, HashStep, DocumentFailsStep, CleanStep
<1>8. CASE (\E d \in DocIds : RemoveOld(d)) \/ AddMember \/ SetSource \/ NextFile \/ RunSucceeds
  BY <1>8, RemoveStep, AddStep, SourceStep, NextFileStep, SuccessStep
<1> QED
  BY <1>1, <1>2, <1>3, <1>4, <1>5, <1>6, <1>7, <1>8 DEF DocsNext, RunStep

LEMMA DocsInvImplies == DocsInv => ProjectDocsHold
<1> SUFFICES ASSUME DocsInv PROVE ProjectDocsHold
  OBVIOUS
<1>1. \A p \in Projects : settled[p] # Unsettled =>
        /\ {docRow[d].text : d \in member[p]} = settled[p]
        /\ Cardinality(member[p]) = Cardinality(settled[p])
  BY DEF DocsInv, SettledStays
<1>2. NoDocRow.text = NoFile /\ NoFile \notin DocTexts
  BY DocsAssumption DEF NoDocRow
<1>3. \A p \in Projects : \A d \in member[p] : docRow[d] # NoDocRow /\ chunks[d] = AllChunks
  BY <1>2 DEF DocsInv, FoundIsKept, Kept
<1>4. ASSUME ~failedRun, NEW d \in DocIds, NEW e \in DocIds, d # e, docRow[d] # NoDocRow,
             docRow[d].text = docRow[e].text
      PROVE  FALSE
  <2>1. docRow[d].text \in DocTexts /\ docRow[e] # NoDocRow /\ d # NoDoc /\ e # NoDoc
    BY <1>2, <1>4 DEF DocsInv, RowsAreFound, DocIds, NoDoc
  <2>2. indexRun.at \in Making => hashRow[indexRun.text] = NoDoc
    BY DEF DocsInv, Made
  <2> QED
    BY <1>4, <2>1, <2>2 DEF DocsInv, RowsAreFound
<1>5. ASSUME ~failedRun, indexRun.at = "idle", NEW s \in DocSessions, prompt[s].cached,
             prompt[s].cachedRev = revision, contract = ProfileOf[s]
      PROVE  prompt[s].docs = member[ProjectOf[s]]
  BY <1>5 DEF DocsInv, PromptsAgree
<1>6. profiles \subseteq {contract}
  BY DEF DocsInv, OneProfile
<1> QED
  BY <1>1, <1>3, <1>4, <1>5, <1>6 DEF ProjectDocsHold

\* After a run that succeeded a project sees one complete document for each of
\* its files' texts, whatever failed before it; without failures no text is
\* indexed twice and no cached prompt is out of date; and all vectors are of one
\* embedding profile (index_project_docs, index_content,
\* ensure_embedding_contract), for any number of sessions, projects and texts.
THEOREM ProjectsSeeTheirFiles == DocsSpec => []ProjectDocsHold
<1> QED
  BY DocsInitInv, DocsNextInv, DocsInvImplies, PTL DEF DocsSpec

-----------------------------------------------------------------------------
(* The memory engine.  An operation is a job: it may take an entry out,    *)
(* and makes or replaces one.  Its calls and what each of them undoes are  *)
(* numbered, and the stores are a function of how many calls have worked.  *)

EntryRow == [text : Contents \cup {NoText}, domain : Domains \cup {NoText}, ver : Nat]

OldEntry == before[1]
OldEmb == before[2]
OldNode == before[3]
OldSig == before[4]

StoresTyped(en, em, no, sg) ==
    /\ en \in [Ids -> EntryRow] /\ em \in [Ids -> Nat] /\ no \in [Ids -> Nat]
    /\ sg \in [Domains -> [Contents -> EntryIds \cup {NoId}]]
    /\ \A j \in EntryIds : en[j].ver > 0 => en[j].text \in Contents /\ en[j].domain \in Domains

\* The numbers beyond n are not in use.
Unused(en, em, no, sg, n) ==
    \A j \in EntryIds : j > n =>
        /\ en[j] = NoRow /\ em[j] = 0 /\ no[j] = 0
        /\ \A d \in Domains, x \in Contents : sg[d][x] # j

\* Neither embedding nor signature outlives its row.
NoneOutlives(en, em, sg) ==
    /\ \A j \in EntryIds \ blurred : em[j] > 0 => en[j].ver > 0
    /\ \A d \in Domains, x \in Contents :
         sg[d][x] # NoId /\ sg[d][x] \notin blurred =>
             en[sg[d][x]].ver > 0 /\ Sig(en[sg[d][x]]) = <<d, x>>

Signed(en, sg, j) == en[j].ver > 0 /\ j \in EntryIds => sg[en[j].domain][en[j].text] = j

SoundComplete(en, em, no, sg) ==
    \A j \in Ids : Sound(j) => em[j] = en[j].ver /\ no[j] = en[j].ver /\ Signed(en, sg, j)

\* The stores between two operations, n numbers in use.
AtRest(en, em, no, sg, n) ==
    /\ StoresTyped(en, em, no, sg) /\ Unused(en, em, no, sg, n)
    /\ NoneOutlives(en, em, sg) /\ SoundComplete(en, em, no, sg)

Jobs == [kind : {"create", "replace", "forget"}, id : Ids \cup {NoId}, row : EntryRow,
         out : Ids \cup {NoId}, p : {0, 3, 4}]

OldPresent(j) == j \in Ids /\ OldEntry[j].ver > 0
OldKey(j) == Sig(OldEntry[j])

\* What an operation found when it began.
JobFits(job) ==
    /\ job.row.ver = writes
    /\ job.id \in EntryIds => job.row.text \in Contents /\ job.row.domain \in Domains
    /\ job.p = 0 <=> job.out = NoId
    /\ job.out \in Ids => OldPresent(job.out)
    /\ job.p = 4 <=> job.out \in EntryIds /\ OldSig[OldEntry[job.out].domain][OldEntry[job.out].text] = job.out
    /\ job.kind = "forget" => job.id = NoId /\ job.out \in Ids
    /\ job.kind = "replace" =>
         /\ job.id \in Ids /\ job.out = NoId
         /\ job.id \in EntryIds =>
               OldPresent(job.id) /\ OldSig[job.row.domain][job.row.text] = job.id
    /\ job.kind = "create" =>
         /\ job.id = writes /\ job.id \in EntryIds /\ job.out \in EntryIds \cup {NoId}
         /\ ~OldPresent(OldSig[job.row.domain][job.row.text])

JobLen(job) ==
    job.p + (IF job.kind = "create" THEN 4 ELSE IF job.kind = "replace" THEN 3 ELSE 0)

\* The calls in their order.
OutCall(job, k) ==
    IF k = 1 THEN Must("node", job.out, 0)
    ELSE IF k = 2 THEN Must("emb", job.out, 0)
    ELSE IF k = job.p THEN Must("row", job.out, NoRow)
    ELSE Must("sig", job.out, [key |-> OldKey(job.out), to |-> NoId])

InCall(job, k) ==
    IF k = 1 THEN Must("row", job.id, job.row)
    ELSE IF k = 2 THEN Must("emb", job.id, job.row.ver)
    ELSE IF k = 3 /\ job.kind = "create" THEN Must("sig", job.id, [key |-> Sig(job.row), to |-> job.id])
    ELSE Must("node", job.id, job.row.ver)

JobCall(job, k) == IF k <= job.p THEN OutCall(job, k) ELSE InCall(job, k - job.p)

\* How many calls bring back the entry that was taken out.
BackLen(job) == IF job.out = NoId THEN 0 ELSE IF OldEmb[job.out] = 0 THEN 2 ELSE 4

\* What is undone when call m fails, counted from the end.
UndoLen(job, m) ==
    IF m <= job.p THEN 0
    ELSE IF job.kind = "create"
    THEN BackLen(job) + (IF m - job.p = 4 THEN 4 ELSE m - job.p - 1)
    ELSE IF m = 3 THEN 3 ELSE m - 1

BackCall(job, w) ==
    IF w = BackLen(job) THEN Must("row", job.out, OldEntry[job.out])
    ELSE IF w = BackLen(job) - 1 THEN Try("slot", job.out, [key |-> OldKey(job.out), to |-> job.out])
    ELSE IF w = 2 THEN Must("emb", job.out, OldEmb[job.out])
    ELSE Try("node", job.out, OldEmb[job.out])

DropCall(job, q) ==
    IF q = 1 THEN Try("row", job.id, NoRow)
    ELSE IF q = 2 THEN Try("emb", job.id, 0)
    ELSE IF q = 3 THEN Try("sig", job.id, [key |-> Sig(job.row), to |-> NoId])
    ELSE Try("node", job.id, 0)

UnreplaceCall(job, m, w) ==
    IF m = 2 \/ w = 3 THEN Try("row", job.id, OldEntry[job.id])
    ELSE IF w = 2 THEN Try("emb", job.id, OldEmb[job.id])
    ELSE Try("node", job.id, OldEmb[job.id])

UndoCall(job, m, w) ==
    IF job.kind = "replace" THEN UnreplaceCall(job, m, w)
    ELSE IF w <= BackLen(job) THEN BackCall(job, w)
    ELSE DropCall(job, w - BackLen(job))

IsUndo(s, job, m) ==
    Len(s) = UndoLen(job, m) /\ \A c \in 1..Len(s) : s[c] = UndoCall(job, m, Len(s) - c + 1)

\* The stores when k calls have worked.
RowAt(job, k, j) == IF j = job.id /\ k >= job.p + 1 THEN job.row
                    ELSE IF j = job.out /\ k >= job.p THEN NoRow ELSE OldEntry[j]
EmbAt(job, k, j) == IF j = job.id /\ k >= job.p + 2 THEN job.row.ver
                    ELSE IF j = job.out /\ k >= 2 THEN 0 ELSE OldEmb[j]
NodeAt(job, k, j) == IF j = job.id /\ k >= JobLen(job) THEN job.row.ver
                     ELSE IF j = job.out /\ k >= 1 THEN 0 ELSE OldNode[j]
SigAt(job, k, d, x) ==
    IF job.kind = "create" /\ <<d, x>> = Sig(job.row) /\ k >= job.p + 3 THEN job.id
    ELSE IF job.p = 4 /\ k >= 3 /\ <<d, x>> = OldKey(job.out) THEN NoId
    ELSE OldSig[d][x]

StoresAt(job, k) ==
    /\ entry = [j \in Ids |-> RowAt(job, k, j)]
    /\ emb = [j \in Ids |-> EmbAt(job, k, j)]
    /\ node = [j \in Ids |-> NodeAt(job, k, j)]
    /\ sig = [d \in Domains |-> [x \in Contents |-> SigAt(job, k, d, x)]]

Doing(job, k) ==
    /\ JobFits(job) /\ k <= JobLen(job)
    /\ Len(todo) = JobLen(job) - k /\ Len(undo) = Len(todo)
    /\ \A c \in 1..Len(todo) : todo[c] = JobCall(job, k + c) /\ IsUndo(undo[c], job, k + c)
    /\ StoresAt(job, k)

\* An undo of which n calls are left.  What a failed call of the undo was
\* about is blurred, and nothing is said of it.
DroppedTo(job, q) ==
    /\ entry[job.id] = (IF q >= 1 THEN job.row ELSE NoRow)
    /\ emb[job.id] = (IF q >= 2 THEN job.row.ver ELSE 0)
    /\ q < 4 => node[job.id] = 0
    /\ q < 3 => sig[job.row.domain][job.row.text] # job.id

BackTo(job, z) ==
    LET L == BackLen(job)
    IN  /\ entry[job.out] = (IF z = L THEN NoRow ELSE OldEntry[job.out])
        /\ emb[job.out] = (IF z <= 1 THEN OldEmb[job.out] ELSE 0)
        /\ node[job.out] = (IF z = 0 THEN OldEmb[job.out] ELSE 0)

UnreplacedTo(job, m, w) ==
    /\ m = 1 \/ (m = 2 /\ w = 0) \/ (m = 3 /\ w <= 2) => entry[job.id] = OldEntry[job.id]
    /\ (m = 2 /\ w = 1) \/ (m = 3 /\ w = 3) => entry[job.id] = job.row
    /\ m <= 2 \/ w <= 1 => emb[job.id] = OldEmb[job.id]
    /\ m <= 2 => node[job.id] = OldNode[job.id]
    /\ m = 3 /\ w = 0 => node[job.id] = OldEmb[job.id]

\* The signatures of the others are as they were, and that of the entry taken
\* out is as far as it is; with no mishap about an id, all are known.
SigsBack(job, z, q) ==
    LET slot == job.p = 4 /\ z >= BackLen(job) - 1
    IN  /\ job.p = 4 /\ Sound(job.out) =>
             sig[OldEntry[job.out].domain][OldEntry[job.out].text] = (IF slot THEN NoId ELSE job.out)
        /\ torn \cup blurred = {} =>
             \A d \in Domains, x \in Contents :
                 sig[d][x] = IF job.kind = "create" /\ <<d, x>> = Sig(job.row) /\ q >= 3 THEN job.id
                             ELSE IF slot /\ <<d, x>> = OldKey(job.out) THEN NoId
                             ELSE OldSig[d][x]

OthersKept(job) ==
    \A j \in Ids \ {job.id, job.out} :
        /\ entry[j] = OldEntry[j] /\ emb[j] = OldEmb[j] /\ node[j] = OldNode[j]
        /\ Sound(j) => Signed(OldEntry, sig, j)

LeastOf(a, b) == IF a <= b THEN a ELSE b

UndoStores(job, m, n, z, q) ==
    /\ job.kind = "create" => (job.id \notin blurred => DroppedTo(job, q)) /\ SigsBack(job, z, q)
    /\ job.out \in Ids \ blurred => BackTo(job, z)
    /\ job.kind = "replace" =>
          (job.id \notin blurred => UnreplacedTo(job, m, n)) /\ sig = OldSig

\* n calls are left, of which z bring the evicted entry back and q drop the
\* new one.
UndoStage(job, m, n, z, q) ==
    /\ n = Len(todo) /\ z = LeastOf(n, BackLen(job)) /\ q = n - z /\ n <= UndoLen(job, m)
    /\ \A c \in 1..n : todo[c] = UndoCall(job, m, n - c + 1)
    /\ UndoStores(job, m, n, z, q)

UndoKept(job) ==
    /\ OthersKept(job)
    /\ StoresTyped(entry, emb, node, sig) /\ NoneOutlives(entry, emb, sig)
    /\ Unused(entry, emb, node, sig, writes)

OutTorn(job) ==
    /\ todo = <<>> /\ job.out \in torn
    /\ job.id \in Ids => /\ entry[job.id] = OldEntry[job.id] /\ emb[job.id] = OldEmb[job.id]
                         /\ node[job.id] = OldNode[job.id]

Undoing(job, m) ==
    /\ JobFits(job) /\ m <= JobLen(job) /\ UndoKept(job)
    /\ \/ m <= job.p /\ OutTorn(job)
       \/ m > job.p /\ \E n, z, q \in 0..8 : UndoStage(job, m, n, z, q)

\* The lists of calls, as sequences of calls.
EngineVal == EntryRow \cup Nat
             \cup [key : (Domains \cup {NoText}) \X (Contents \cup {NoText}), to : Ids \cup {NoId}]
EngineCall == [store : {"row", "emb", "node", "sig", "slot"}, id : Ids, val : EngineVal, must : BOOLEAN]

EngineLists == todo \in Seq(EngineCall) /\ undo \in Seq(Seq(EngineCall))

EngineInv ==
    /\ EngineLists
    /\ writes \in 0..MaxWrites /\ mishaps \in 0..MaxMishaps
    /\ torn \subseteq Ids /\ blurred \subseteq Ids
    /\ mode \in {"idle", "doing", "undoing"}
    /\ mode = "idle" =>
         /\ AtRest(entry, emb, node, sig, writes)
         /\ result = "error" /\ torn \cup blurred = {} => before = <<entry, emb, node, sig>>
    /\ mode # "idle" =>
         /\ writes > 0 /\ before = <<OldEntry, OldEmb, OldNode, OldSig>>
         /\ AtRest(OldEntry, OldEmb, OldNode, OldSig, writes - 1)
    /\ mode = "doing" => result = "ok" /\ \E job \in Jobs, k \in 0..8 : Doing(job, k)
    /\ mode = "undoing" => result = "error" /\ \E job \in Jobs, m \in 1..8 : Undoing(job, m)

-----------------------------------------------------------------------------

LEMMA IdsApart ==
    /\ NoId \notin Ids /\ EntryIds \subseteq Ids /\ ChunkIds \subseteq Ids /\ NoId \notin EntryIds
    /\ EntryIds \subseteq Nat /\ EntryIds \cap ChunkIds = {} /\ Ids = EntryIds \cup ChunkIds
    /\ \A j \in EntryIds : j > 0 /\ j <= MaxWrites
    /\ MaxWrites \in Nat /\ MaxMishaps \in Nat
<1>1. EntryIds \subseteq Nat /\ \A j \in EntryIds : j > 0 /\ j <= MaxWrites
  BY EngineAssumption DEF EntryIds
<1> QED
  BY <1>1, EngineAssumption DEF Ids

LEMMA NoRowTyped == NoRow \in EntryRow /\ NoRow.ver = 0
  BY DEF NoRow, EntryRow

\* A call by its parts.
LEMMA CallParts ==
    ASSUME NEW st, NEW i, NEW v
    PROVE  /\ Must(st, i, v).store = st /\ Must(st, i, v).id = i /\ Must(st, i, v).val = v
           /\ Must(st, i, v).must = TRUE
           /\ Try(st, i, v).store = st /\ Try(st, i, v).id = i /\ Try(st, i, v).val = v
           /\ Try(st, i, v).must = FALSE
  BY DEF Must, Try

LEMMA CallTyped ==
    ASSUME NEW st \in {"row", "emb", "node", "sig", "slot"}, NEW i \in Ids, NEW v \in EngineVal
    PROVE  Must(st, i, v) \in EngineCall /\ Try(st, i, v) \in EngineCall
  BY DEF Must, Try, EngineCall

LEMMA ListShape ==
    ASSUME NEW S, NEW s \in Seq(S), s # <<>>
    PROVE  /\ Len(s) \in Nat /\ Len(s) > 0 /\ Head(s) = s[1] /\ s[1] \in S
           /\ Tail(s) \in Seq(S) /\ Len(Tail(s)) = Len(s) - 1
           /\ \A c \in 1..(Len(s) - 1) : Tail(s)[c] = s[c + 1]
  OBVIOUS

\* What a call does to the stores.
LEMMA CallApplied ==
    ASSUME NEW c, Apply(c), StoresTyped(entry, emb, node, sig)
    PROVE  /\ \A j \in Ids : entry'[j] = IF c.store = "row" /\ c.id = j THEN c.val ELSE entry[j]
           /\ \A j \in Ids : emb'[j] = IF c.store = "emb" /\ c.id = j THEN c.val ELSE emb[j]
           /\ \A j \in Ids : node'[j] = IF c.store = "node" /\ c.id = j THEN c.val ELSE node[j]
           /\ c.store \notin {"row"} => entry' = entry
           /\ c.store \notin {"emb"} => emb' = emb
           /\ c.store \notin {"node"} => node' = node
           /\ c.store \notin {"sig", "slot"} => sig' = sig
  BY DEF Apply, StoresTyped

LEMMA ApplyTyped ==
    ASSUME NEW c, Apply(c), StoresTyped(entry, emb, node, sig), c.id \in Ids,
           c.store = "row" => c.val \in EntryRow /\ (c.id \in EntryIds /\ c.val.ver > 0 =>
                                   c.val.text \in Contents /\ c.val.domain \in Domains),
           c.store \in {"emb", "node"} => c.val \in Nat,
           c.store \in {"sig", "slot"} => /\ c.val.key \in Domains \X Contents
                                          /\ c.val.to \in EntryIds \cup {NoId}
    PROVE  /\ StoresTyped(entry', emb', node', sig')
           /\ c.store \in {"sig", "slot"} => \A d \in Domains, x \in Contents :
                sig'[d][x] = IF <<d, x>> = c.val.key /\ (c.store = "sig" \/ sig[d][x] = NoId)
                             THEN c.val.to ELSE sig[d][x]
<1>1. entry' \in [Ids -> EntryRow]
  BY DEF Apply, StoresTyped
<1>2. emb' \in [Ids -> Nat] /\ node' \in [Ids -> Nat]
  BY DEF Apply, StoresTyped
<1>3. sig' \in [Domains -> [Contents -> EntryIds \cup {NoId}]]
  <2>1. CASE c.store \in {"sig", "slot"}
    <3>1. c.val.key[1] \in Domains /\ c.val.key[2] \in Contents /\ c.val.to \in EntryIds \cup {NoId}
      BY <2>1
    <3> QED
      BY <3>1 DEF Apply, StoresTyped
  <2>2. CASE c.store \notin {"sig", "slot"}
    BY <2>2 DEF Apply, StoresTyped
  <2> QED
    BY <2>1, <2>2
<1>4. \A j \in EntryIds : entry'[j].ver > 0 => entry'[j].text \in Contents /\ entry'[j].domain \in Domains
  BY IdsApart, CallApplied DEF StoresTyped
<1>5. ASSUME c.store \in {"sig", "slot"}, NEW d \in Domains, NEW x \in Contents
      PROVE  sig'[d][x] = IF <<d, x>> = c.val.key /\ (c.store = "sig" \/ sig[d][x] = NoId)
                          THEN c.val.to ELSE sig[d][x]
  <2>1. PICK a \in Domains, b \in Contents : c.val.key = <<a, b>>
    BY <1>5
  <2>2. c.val.key[1] = a /\ c.val.key[2] = b
    BY <2>1
  <2>3. sig \in [Domains -> [Contents -> EntryIds \cup {NoId}]]
    BY DEF StoresTyped
  <2>4. sig' = IF c.store = "sig" \/ sig[a][b] = NoId THEN [sig EXCEPT ![a][b] = c.val.to] ELSE sig
    BY <1>5, <2>2 DEF Apply
  <2> QED
    BY <2>1, <2>3, <2>4
<1> QED
  BY <1>1, <1>2, <1>3, <1>4, <1>5 DEF StoresTyped

\* What the proofs below know of the job under way.
OldAtRest == writes \in Nat /\ writes > 0 /\ AtRest(OldEntry, OldEmb, OldNode, OldSig, writes - 1)

LEMMA JobApart ==
    ASSUME OldAtRest, NEW job \in Jobs, JobFits(job)
    PROVE  /\ job.id # job.out
           /\ job.id \in EntryIds => job.id <= writes
           /\ job.out \in EntryIds => job.out < writes /\ OldKey(job.out) \in Domains \X Contents
                                      /\ OldKey(job.out) = <<OldEntry[job.out].domain, OldEntry[job.out].text>>
           /\ Sig(job.row) = <<job.row.domain, job.row.text>>
           /\ job.id \in EntryIds => Sig(job.row) \in Domains \X Contents
<1>1. \A j \in EntryIds : OldEntry[j].ver > 0 => j < writes
  BY IdsApart, NoRowTyped DEF OldAtRest, AtRest, Unused
<1>2. job.kind \in {"create", "replace", "forget"}
  BY DEF Jobs
<1>3. job.id \in EntryIds => job.id <= writes
  <2>1. job.id \in EntryIds => job.id = writes \/ OldEntry[job.id].ver > 0
    BY <1>2, IdsApart DEF JobFits, OldPresent
  <2>2. writes \in Nat /\ (job.id \in EntryIds => job.id \in Nat)
    BY IdsApart DEF OldAtRest
  <2>3. job.id \in EntryIds /\ OldEntry[job.id].ver > 0 => job.id < writes
    BY <1>1
  <2> QED
    BY <2>1, <2>2, <2>3
<1>4. job.out \in EntryIds => job.out < writes
  BY <1>1, IdsApart DEF JobFits, OldPresent
<1>5. job.id # job.out
  BY <1>2, <1>4, IdsApart DEF JobFits, OldAtRest
<1>6. job.out \in EntryIds => OldEntry[job.out].text \in Contents /\ OldEntry[job.out].domain \in Domains
  BY IdsApart DEF JobFits, OldPresent, OldAtRest, AtRest, StoresTyped
<1> QED
  BY <1>3, <1>4, <1>5, <1>6 DEF OldKey, Sig, JobFits

\* A sound entry is found by its text, and the text of a creation finds none.
LEMMA KeysApart ==
    ASSUME OldAtRest, NEW job \in Jobs, JobFits(job), NEW j \in EntryIds, Sound(j), OldPresent(j)
    PROVE  /\ OldSig[OldEntry[j].domain][OldEntry[j].text] = j
           /\ OldEntry[j].domain \in Domains /\ OldEntry[j].text \in Contents
           /\ job.kind = "create" => OldKey(j) # Sig(job.row)
           /\ j # job.out /\ job.p = 4 => OldKey(j) # OldKey(job.out)
           /\ j = job.out => job.p = 4 /\ BackLen(job) = 4
<1>1. j \in Ids /\ j # NoId
  BY IdsApart
<1>2. OldEntry[j].ver > 0 /\ OldEmb[j] = OldEntry[j].ver
  BY <1>1 DEF OldPresent, OldAtRest, AtRest, SoundComplete
<1>3. OldSig[OldEntry[j].domain][OldEntry[j].text] = j
  BY <1>1, <1>2 DEF OldAtRest, AtRest, SoundComplete, Signed
<1>4. OldEntry[j].domain \in Domains /\ OldEntry[j].text \in Contents
  BY <1>2 DEF OldAtRest, AtRest, StoresTyped
<1>5. job.kind = "create" => OldKey(j) # Sig(job.row)
  BY <1>3 DEF JobFits, OldKey, Sig
<1>6. j # job.out /\ job.p = 4 => OldKey(j) # OldKey(job.out)
  BY <1>3 DEF JobFits, OldKey, Sig
<1>7. OldEmb[j] \in Nat /\ OldEntry[j].ver \in Nat
  BY <1>1 DEF OldAtRest, AtRest, StoresTyped, EntryRow
<1>8. j = job.out => job.p = 4 /\ BackLen(job) = 4
  BY <1>1, <1>2, <1>3, <1>7 DEF JobFits, BackLen
<1> QED
  BY <1>3, <1>4, <1>5, <1>6, <1>8

LEMMA JobShape ==
    ASSUME NEW job \in Jobs
    PROVE  /\ job.p \in {0, 3, 4} /\ job.kind \in {"create", "replace", "forget"}
           /\ job.row \in EntryRow /\ job.row.ver \in Nat
           /\ job.id \in Ids \cup {NoId} /\ job.out \in Ids \cup {NoId}
           /\ JobLen(job) \in 0..8
           /\ job.kind = "create" => JobLen(job) = job.p + 4
           /\ job.kind = "replace" => JobLen(job) = job.p + 3
           /\ job.kind = "forget" => JobLen(job) = job.p
           /\ BackLen(job) \in {0, 2, 4} /\ (job.out # NoId => BackLen(job) # 0)
<1>1. /\ job.p \in {0, 3, 4} /\ job.kind \in {"create", "replace", "forget"}
      /\ job.row \in EntryRow /\ job.id \in Ids \cup {NoId} /\ job.out \in Ids \cup {NoId}
  BY DEF Jobs
<1>2. job.row.ver \in Nat
  BY <1>1 DEF EntryRow
<1>3. /\ job.kind = "create" => JobLen(job) = job.p + 4
      /\ job.kind = "replace" => JobLen(job) = job.p + 3
      /\ job.kind = "forget" => JobLen(job) = job.p
  BY <1>1 DEF JobLen
<1>4. JobLen(job) \in 0..8
  BY <1>1, <1>3
<1>5. BackLen(job) \in {0, 2, 4} /\ (job.out # NoId => BackLen(job) # 0)
  BY DEF BackLen
<1> QED
  BY <1>1, <1>2, <1>3, <1>4, <1>5

\* The stores as they are, each by its formula.
LEMMA StoresRead ==
    ASSUME NEW job, NEW k, StoresAt(job, k)
    PROVE  /\ \A j \in Ids : entry[j] = RowAt(job, k, j) /\ emb[j] = EmbAt(job, k, j)
                             /\ node[j] = NodeAt(job, k, j)
           /\ \A d \in Domains, x \in Contents : sig[d][x] = SigAt(job, k, d, x)
  BY DEF StoresAt

LEMMA AtTyped ==
    ASSUME OldAtRest, NEW job \in Jobs, JobFits(job), NEW k \in Nat, StoresAt(job, k)
    PROVE  StoresTyped(entry, emb, node, sig)
<1> USE JobShape, JobApart, IdsApart, NoRowTyped
<1>0. StoresTyped(OldEntry, OldEmb, OldNode, OldSig)
  BY DEF OldAtRest, AtRest
<1>1. \A j \in Ids : RowAt(job, k, j) \in EntryRow
  BY <1>0 DEF RowAt, StoresTyped
<1>2. \A j \in Ids : EmbAt(job, k, j) \in Nat /\ NodeAt(job, k, j) \in Nat
  BY <1>0 DEF EmbAt, NodeAt, StoresTyped
<1>3. \A d \in Domains, x \in Contents : SigAt(job, k, d, x) \in EntryIds \cup {NoId}
  BY <1>0 DEF SigAt, StoresTyped, JobFits
<1>4. \A j \in EntryIds : RowAt(job, k, j).ver > 0 =>
          RowAt(job, k, j).text \in Contents /\ RowAt(job, k, j).domain \in Domains
  BY <1>0 DEF RowAt, StoresTyped, JobFits
<1>5. /\ entry = [j \in Ids |-> RowAt(job, k, j)] /\ emb = [j \in Ids |-> EmbAt(job, k, j)]
      /\ node = [j \in Ids |-> NodeAt(job, k, j)]
      /\ sig = [d \in Domains |-> [x \in Contents |-> SigAt(job, k, d, x)]]
  BY DEF StoresAt
<1>6. entry \in [Ids -> EntryRow] /\ emb \in [Ids -> Nat] /\ node \in [Ids -> Nat]
  BY <1>1, <1>2, <1>5
<1>7. sig \in [Domains -> [Contents -> EntryIds \cup {NoId}]]
  BY <1>3, <1>5
<1>8. \A j \in EntryIds : entry[j].ver > 0 => entry[j].text \in Contents /\ entry[j].domain \in Domains
  BY <1>4, <1>5
<1> QED
  BY <1>6, <1>7, <1>8 DEF StoresTyped

LEMMA AtUnused ==
    ASSUME OldAtRest, NEW job \in Jobs, JobFits(job), NEW k \in Nat, StoresAt(job, k)
    PROVE  Unused(entry, emb, node, sig, writes)
<1> SUFFICES ASSUME NEW j \in EntryIds, j > writes
             PROVE  /\ entry[j] = NoRow /\ emb[j] = 0 /\ node[j] = 0
                    /\ \A d \in Domains, x \in Contents : sig[d][x] # j
  BY DEF Unused
<1>1. j # job.id /\ j # job.out /\ j \in Ids /\ j # NoId
  BY JobApart, IdsApart DEF OldAtRest
<1>2. /\ OldEntry[j] = NoRow /\ OldEmb[j] = 0 /\ OldNode[j] = 0
      /\ \A d \in Domains, x \in Contents : OldSig[d][x] # j
  BY IdsApart DEF OldAtRest, AtRest, Unused
<1> QED
  BY <1>1, <1>2, StoresRead DEF RowAt, EmbAt, NodeAt, SigAt

LEMMA AtNoneOutlives ==
    ASSUME OldAtRest, NEW job \in Jobs, JobFits(job), NEW k \in Nat, StoresAt(job, k)
    PROVE  NoneOutlives(entry, emb, sig)
<1> USE JobShape, JobApart, IdsApart, NoRowTyped
<1>0. NoneOutlives(OldEntry, OldEmb, OldSig) /\ StoresTyped(OldEntry, OldEmb, OldNode, OldSig)
  BY DEF OldAtRest, AtRest
<1>1. ASSUME NEW j \in EntryIds \ blurred, emb[j] > 0 PROVE entry[j].ver > 0
  <2>0. j \in Ids
    OBVIOUS
  <2>1. entry[j] = RowAt(job, k, j) /\ emb[j] = EmbAt(job, k, j)
    BY <2>0, StoresRead
  <2>2. CASE j = job.id
    <3>1. job.row.ver > 0
      BY DEF JobFits, OldAtRest
    <3>2. OldEmb[j] > 0 => OldEntry[j].ver > 0
      BY <1>0 DEF NoneOutlives
    <3>3. job.p >= 0 /\ j # job.out
      BY <2>2
    <3> QED
      BY <1>1, <2>1, <2>2, <3>1, <3>2, <3>3 DEF RowAt, EmbAt
  <2>3. CASE j = job.out
    <3>1. OldEntry[j].ver > 0
      BY <2>3, <2>0 DEF JobFits, OldPresent
    <3>2. job.p >= 3
      BY <2>3 DEF JobFits
    <3>3. k < 2
      BY <1>1, <2>1, <2>3 DEF EmbAt
    <3> QED
      BY <2>1, <2>3, <3>1, <3>2, <3>3 DEF RowAt
  <2>4. CASE j # job.id /\ j # job.out
    BY <1>0, <1>1, <2>1, <2>4 DEF NoneOutlives, RowAt, EmbAt
  <2> QED
    BY <2>2, <2>3, <2>4
<1>2. ASSUME NEW d \in Domains, NEW x \in Contents, NEW j, j = sig[d][x], j # NoId, j \notin blurred
      PROVE  entry[j].ver > 0 /\ Sig(entry[j]) = <<d, x>>
  <2>1. j = SigAt(job, k, d, x)
    BY <1>2, StoresRead
  <2>2. CASE job.kind = "create" /\ <<d, x>> = Sig(job.row) /\ k >= job.p + 3
    <3>1. j = job.id /\ j \in Ids
      BY <2>1, <2>2 DEF SigAt, JobFits
    <3>2. entry[j] = job.row
      BY <3>1, <2>2, StoresRead DEF RowAt
    <3> QED
      BY <3>2, <2>2 DEF JobFits, OldAtRest
  <2>3. CASE /\ ~(job.kind = "create" /\ <<d, x>> = Sig(job.row) /\ k >= job.p + 3)
             /\ ~(job.p = 4 /\ k >= 3 /\ <<d, x>> = OldKey(job.out))
    <3>1. j = OldSig[d][x]
      BY <2>1, <2>3 DEF SigAt
    <3>2. j \in EntryIds /\ OldEntry[j].ver > 0 /\ Sig(OldEntry[j]) = <<d, x>>
      BY <1>0, <1>2, <3>1 DEF NoneOutlives, StoresTyped
    <3>3. entry[j] = RowAt(job, k, j)
      BY <3>2, StoresRead
    <3>4. CASE j = job.id
      <4>1. job.kind # "create"
        BY <3>2, <3>4 DEF JobFits, OldAtRest, AtRest, Unused
      <4>2. OldSig[job.row.domain][job.row.text] = j
        BY <4>1, <3>2, <3>4 DEF JobFits
      <4>3. job.row.domain \in Domains /\ job.row.text \in Contents
        BY <3>2, <3>4 DEF JobFits
      <4>4. Sig(OldEntry[j]) = <<job.row.domain, job.row.text>>
        BY <4>2, <4>3, <1>0, <1>2 DEF NoneOutlives
      <4>5. Sig(job.row) = <<d, x>> /\ job.row.ver > 0
        BY <4>4, <3>2 DEF JobFits, OldAtRest
      <4> QED
        BY <4>5, <3>2, <3>3, <3>4 DEF RowAt
    <3>5. CASE j = job.out
      <4>1. OldKey(job.out) = <<d, x>> /\ job.out \in EntryIds
        BY <3>2, <3>5 DEF OldKey
      <4>2. OldSig[OldEntry[job.out].domain][OldEntry[job.out].text] = job.out
        <5>1. OldEntry[job.out].domain = d /\ OldEntry[job.out].text = x
          BY <4>1 DEF OldKey, Sig
        <5> QED
          BY <5>1, <3>1, <3>5
      <4>3. job.p = 4
        BY <4>1, <4>2 DEF JobFits
      <4>4. k < 3
        BY <4>1, <4>3, <2>3
      <4> QED
        BY <3>2, <3>3, <3>5, <4>3, <4>4 DEF RowAt
    <3>6. CASE j # job.id /\ j # job.out
      BY <3>2, <3>3, <3>6 DEF RowAt
    <3> QED
      BY <3>4, <3>5, <3>6
  <2> QED
    BY <1>2, <2>1, <2>2, <2>3 DEF SigAt
<1> QED
  BY <1>1, <1>2 DEF NoneOutlives

\* The call that is next, by its number.
LEMMA CallKinds ==
    ASSUME NEW job \in Jobs, JobFits(job), NEW k \in Nat, k < JobLen(job)
    PROVE  LET c == JobCall(job, k + 1)
           IN  \/ k < job.p /\ k = 0 /\ c = Must("node", job.out, 0)
               \/ k < job.p /\ k = 1 /\ c = Must("emb", job.out, 0)
               \/ k < job.p /\ k = 2 /\ job.p = 4
                  /\ c = Must("sig", job.out, [key |-> OldKey(job.out), to |-> NoId])
               \/ k < job.p /\ k = job.p - 1 /\ k >= 2 /\ c = Must("row", job.out, NoRow)
               \/ k = job.p /\ job.kind # "forget" /\ c = Must("row", job.id, job.row)
               \/ k = job.p + 1 /\ job.kind # "forget" /\ c = Must("emb", job.id, job.row.ver)
               \/ k = job.p + 2 /\ job.kind = "create"
                  /\ c = Must("sig", job.id, [key |-> Sig(job.row), to |-> job.id])
               \/ k = JobLen(job) - 1 /\ k >= job.p + 2 /\ job.kind # "forget"
                  /\ c = Must("node", job.id, job.row.ver)
<1> USE JobShape
<1>1. CASE k < job.p
  <2>1. k + 1 <= job.p /\ job.p \in {3, 4} /\ k \in {0, 1, 2, 3}
    BY <1>1
  <2> QED
    BY <1>1, <2>1 DEF JobCall, OutCall
<1>2. CASE ~(k < job.p)
  <2>1. ~(k + 1 <= job.p) /\ job.kind # "forget"
    BY <1>2
  <2>2. JobCall(job, k + 1) = InCall(job, k + 1 - job.p)
    BY <2>1 DEF JobCall
  <2>3. k + 1 - job.p \in 1..4 /\ (k + 1 - job.p = 4 => job.kind = "create")
    BY <1>2, <2>1
  <2>4. \/ k = job.p /\ k + 1 - job.p = 1 
        \/ k = job.p + 1 /\ k + 1 - job.p = 2
        \/ k = job.p + 2 /\ k + 1 - job.p = 3
        \/ k = job.p + 3 /\ k + 1 - job.p = 4
    BY <2>3
  <2>5. /\ job.kind = "create" => JobLen(job) = job.p + 4
        /\ job.kind = "replace" => JobLen(job) = job.p + 3
    OBVIOUS
  <2> QED
    BY <2>1, <2>2, <2>3, <2>4, <2>5 DEF InCall
<1> QED
  BY <1>1, <1>2

\* One more call: its store changes at its id.
LEMMA NextAt ==
    ASSUME OldAtRest, NEW job \in Jobs, JobFits(job), NEW k \in Nat, k < JobLen(job),
           NEW c, c = JobCall(job, k + 1)
    PROVE  /\ \A j \in Ids :
                /\ RowAt(job, k + 1, j) = IF c.store = "row" /\ c.id = j THEN c.val ELSE RowAt(job, k, j)
                /\ EmbAt(job, k + 1, j) = IF c.store = "emb" /\ c.id = j THEN c.val ELSE EmbAt(job, k, j)
                /\ NodeAt(job, k + 1, j) = IF c.store = "node" /\ c.id = j THEN c.val ELSE NodeAt(job, k, j)
           /\ \A d \in Domains, x \in Contents :
                SigAt(job, k + 1, d, x) = IF c.store = "sig" /\ <<d, x>> = c.val.key THEN c.val.to
                                          ELSE SigAt(job, k, d, x)
           /\ c.store # "slot" /\ c.id \in Ids
           /\ c.store = "row" => c.val \in EntryRow /\ (c.id \in EntryIds /\ c.val.ver > 0 =>
                                   c.val.text \in Contents /\ c.val.domain \in Domains)
           /\ c.store \in {"emb", "node"} => c.val \in Nat
           /\ c.store = "sig" => c.val.key \in Domains \X Contents /\ c.val.to \in EntryIds \cup {NoId}
<1>0. /\ job.p \in {0, 3, 4} /\ job.id # job.out /\ job.kind \in {"create", "replace", "forget"}
      /\ JobLen(job) \in Nat /\ JobLen(job) >= job.p
      /\ job.kind # "forget" => JobLen(job) >= job.p + 3 /\ job.id \in Ids
      /\ job.kind = "create" => JobLen(job) = job.p + 4 /\ job.id \in EntryIds
      /\ job.kind = "forget" => JobLen(job) = job.p /\ job.id = NoId
      /\ job.kind = "replace" => job.p = 0
      /\ (job.p = 0 => job.out = NoId) /\ (job.p # 0 => job.out \in Ids) /\ (job.p = 4 => job.out \in EntryIds)
      /\ job.row \in EntryRow /\ job.row.ver \in Nat
      /\ (job.id \in EntryIds => job.row.text \in Contents /\ job.row.domain \in Domains)
  BY JobShape, JobApart, IdsApart DEF JobFits
<1>a. NoRow \in EntryRow /\ NoRow.ver = 0 /\ NoId \notin Ids
  BY NoRowTyped, IdsApart
<1> DEFINE Rows == \A j \in Ids :
                RowAt(job, k + 1, j) = IF c.store = "row" /\ c.id = j THEN c.val ELSE RowAt(job, k, j)
           Embs == \A j \in Ids :
                EmbAt(job, k + 1, j) = IF c.store = "emb" /\ c.id = j THEN c.val ELSE EmbAt(job, k, j)
           Nodes == \A j \in Ids :
                NodeAt(job, k + 1, j) = IF c.store = "node" /\ c.id = j THEN c.val ELSE NodeAt(job, k, j)
           Sigs == \A d \in Domains, x \in Contents :
                SigAt(job, k + 1, d, x) = IF c.store = "sig" /\ <<d, x>> = c.val.key THEN c.val.to
                                          ELSE SigAt(job, k, d, x)
           Typed == /\ c.store # "slot" /\ c.id \in Ids
                    /\ c.store = "row" => c.val \in EntryRow /\ (c.id \in EntryIds /\ c.val.ver > 0 =>
                                            c.val.text \in Contents /\ c.val.domain \in Domains)
                    /\ c.store \in {"emb", "node"} => c.val \in Nat
                    /\ c.store = "sig" => c.val.key \in Domains \X Contents /\ c.val.to \in EntryIds \cup {NoId}
<1>1. CASE k < job.p /\ k = 0 /\ c = Must("node", job.out, 0)
  <2>1. c.store = "node" /\ c.id = job.out /\ c.val = 0
    BY <1>1 DEF Must
  <2>2. k \in Nat /\ job.p \in Nat /\ k + 1 >= 1 /\ (job.kind = "create" => (k + 1 >= JobLen(job) <=> k >= job.p + 3))
    BY <1>0, <1>1
  <2>4. Rows
    BY <1>0, <1>a, <1>1, <2>1, <2>2 DEF RowAt
  <2>5. Embs
    BY <1>0, <1>a, <1>1, <2>1, <2>2 DEF EmbAt
  <2>6. Nodes
    BY <1>0, <1>a, <1>1, <2>1, <2>2 DEF NodeAt
  <2>7. Sigs
    BY <1>0, <1>a, <1>1, <2>1, <2>2 DEF SigAt
  <2>8. Typed
    BY <1>0, <1>a, <1>1, <2>1
  <2> QED
    BY <2>4, <2>5, <2>6, <2>7, <2>8
<1>2. CASE k < job.p /\ k = 1 /\ c = Must("emb", job.out, 0)
  <2>1. c.store = "emb" /\ c.id = job.out /\ c.val = 0
    BY <1>2 DEF Must
  <2>2. k \in Nat /\ job.p \in Nat /\ k + 1 >= 1 /\ (job.kind = "create" => (k + 1 >= JobLen(job) <=> k >= job.p + 3))
    BY <1>0, <1>2
  <2>4. Rows
    BY <1>0, <1>a, <1>2, <2>1, <2>2 DEF RowAt
  <2>5. Embs
    BY <1>0, <1>a, <1>2, <2>1, <2>2 DEF EmbAt
  <2>6. Nodes
    BY <1>0, <1>a, <1>2, <2>1, <2>2 DEF NodeAt
  <2>7. Sigs
    BY <1>0, <1>a, <1>2, <2>1, <2>2 DEF SigAt
  <2>8. Typed
    BY <1>0, <1>a, <1>2, <2>1
  <2> QED
    BY <2>4, <2>5, <2>6, <2>7, <2>8
<1>3. CASE k < job.p /\ k = 2 /\ job.p = 4
           /\ c = Must("sig", job.out, [key |-> OldKey(job.out), to |-> NoId])
  <2>1. c.store = "sig" /\ c.id = job.out /\ c.val = [key |-> OldKey(job.out), to |-> NoId]
    BY <1>3 DEF Must
  <2>2. k \in Nat /\ job.p \in Nat /\ k + 1 >= 1 /\ (job.kind = "create" => (k + 1 >= JobLen(job) <=> k >= job.p + 3))
    BY <1>0, <1>3
  <2>3. c.val.key = OldKey(job.out) /\ c.val.to = NoId /\ c.val.key \in Domains \X Contents /\ c.val.to \in EntryIds \cup {NoId}
    <3>1. c.val.key = OldKey(job.out) /\ c.val.to = NoId
      BY <2>1
    <3> QED
      BY <3>1, <1>0, <1>3, JobApart
  <2>4. Rows
    BY <1>0, <1>a, <1>3, <2>1, <2>2 DEF RowAt
  <2>5. Embs
    BY <1>0, <1>a, <1>3, <2>1, <2>2 DEF EmbAt
  <2>6. Nodes
    BY <1>0, <1>a, <1>3, <2>1, <2>2 DEF NodeAt
  <2>7. Sigs
    BY <1>0, <1>a, <1>3, <2>1, <2>2, <2>3 DEF SigAt
  <2>8. Typed
    BY <1>0, <1>a, <1>3, <2>1, <2>3
  <2> QED
    BY <2>4, <2>5, <2>6, <2>7, <2>8
<1>4. CASE k < job.p /\ k = job.p - 1 /\ k >= 2 /\ c = Must("row", job.out, NoRow)
  <2>1. c.store = "row" /\ c.id = job.out /\ c.val = NoRow
    BY <1>4 DEF Must
  <2>2. k \in Nat /\ job.p \in Nat /\ k + 1 >= 1 /\ (job.kind = "create" => (k + 1 >= JobLen(job) <=> k >= job.p + 3))
    BY <1>0, <1>4
  <2>4. Rows
    BY <1>0, <1>a, <1>4, <2>1, <2>2 DEF RowAt
  <2>5. Embs
    BY <1>0, <1>a, <1>4, <2>1, <2>2 DEF EmbAt
  <2>6. Nodes
    BY <1>0, <1>a, <1>4, <2>1, <2>2 DEF NodeAt
  <2>7. Sigs
    BY <1>0, <1>a, <1>4, <2>1, <2>2 DEF SigAt
  <2>8. Typed
    BY <1>0, <1>a, <1>4, <2>1
  <2> QED
    BY <2>4, <2>5, <2>6, <2>7, <2>8
<1>5. CASE k = job.p /\ job.kind # "forget" /\ c = Must("row", job.id, job.row)
  <2>1. c.store = "row" /\ c.id = job.id /\ c.val = job.row
    BY <1>5 DEF Must
  <2>2. k \in Nat /\ job.p \in Nat /\ k + 1 >= 1 /\ (job.kind = "create" => (k + 1 >= JobLen(job) <=> k >= job.p + 3))
    BY <1>0, <1>5
  <2>4. Rows
    BY <1>0, <1>a, <1>5, <2>1, <2>2 DEF RowAt
  <2>5. Embs
    BY <1>0, <1>a, <1>5, <2>1, <2>2 DEF EmbAt
  <2>6. Nodes
    BY <1>0, <1>a, <1>5, <2>1, <2>2 DEF NodeAt
  <2>7. Sigs
    BY <1>0, <1>a, <1>5, <2>1, <2>2 DEF SigAt
  <2>8. Typed
    BY <1>0, <1>a, <1>5, <2>1
  <2> QED
    BY <2>4, <2>5, <2>6, <2>7, <2>8
<1>6. CASE k = job.p + 1 /\ job.kind # "forget" /\ c = Must("emb", job.id, job.row.ver)
  <2>1. c.store = "emb" /\ c.id = job.id /\ c.val = job.row.ver
    BY <1>6 DEF Must
  <2>2. k \in Nat /\ job.p \in Nat /\ k + 1 >= 1 /\ (job.kind = "create" => (k + 1 >= JobLen(job) <=> k >= job.p + 3))
    BY <1>0, <1>6
  <2>4. Rows
    BY <1>0, <1>a, <1>6, <2>1, <2>2 DEF RowAt
  <2>5. Embs
    BY <1>0, <1>a, <1>6, <2>1, <2>2 DEF EmbAt
  <2>6. Nodes
    BY <1>0, <1>a, <1>6, <2>1, <2>2 DEF NodeAt
  <2>7. Sigs
    BY <1>0, <1>a, <1>6, <2>1, <2>2 DEF SigAt
  <2>8. Typed
    BY <1>0, <1>a, <1>6, <2>1
  <2> QED
    BY <2>4, <2>5, <2>6, <2>7, <2>8
<1>7. CASE k = job.p + 2 /\ job.kind = "create"
           /\ c = Must("sig", job.id, [key |-> Sig(job.row), to |-> job.id])
  <2>1. c.store = "sig" /\ c.id = job.id /\ c.val = [key |-> Sig(job.row), to |-> job.id]
    BY <1>7 DEF Must
  <2>2. k \in Nat /\ job.p \in Nat /\ k + 1 >= 1 /\ (job.kind = "create" => (k + 1 >= JobLen(job) <=> k >= job.p + 3))
    BY <1>0, <1>7
  <2>3. c.val.key = Sig(job.row) /\ c.val.to = job.id /\ c.val.key \in Domains \X Contents /\ c.val.to \in EntryIds \cup {NoId}
    <3>1. c.val.key = Sig(job.row) /\ c.val.to = job.id
      BY <2>1
    <3> QED
      BY <3>1, <1>0, <1>7, JobApart
  <2>4. Rows
    BY <1>0, <1>a, <1>7, <2>1, <2>2 DEF RowAt
  <2>5. Embs
    BY <1>0, <1>a, <1>7, <2>1, <2>2 DEF EmbAt
  <2>6. Nodes
    BY <1>0, <1>a, <1>7, <2>1, <2>2 DEF NodeAt
  <2>7. Sigs
    BY <1>0, <1>a, <1>7, <2>1, <2>2, <2>3 DEF SigAt
  <2>8. Typed
    BY <1>0, <1>a, <1>7, <2>1, <2>3
  <2> QED
    BY <2>4, <2>5, <2>6, <2>7, <2>8
<1>8. CASE k = JobLen(job) - 1 /\ k >= job.p + 2 /\ job.kind # "forget"
           /\ c = Must("node", job.id, job.row.ver)
  <2>1. c.store = "node" /\ c.id = job.id /\ c.val = job.row.ver
    BY <1>8 DEF Must
  <2>2. k \in Nat /\ job.p \in Nat /\ k + 1 >= 1 /\ (job.kind = "create" => (k + 1 >= JobLen(job) <=> k >= job.p + 3))
    BY <1>0, <1>8
  <2>4. Rows
    BY <1>0, <1>a, <1>8, <2>1, <2>2 DEF RowAt
  <2>5. Embs
    BY <1>0, <1>a, <1>8, <2>1, <2>2 DEF EmbAt
  <2>6. Nodes
    BY <1>0, <1>a, <1>8, <2>1, <2>2 DEF NodeAt
  <2>7. Sigs
    BY <1>0, <1>a, <1>8, <2>1, <2>2 DEF SigAt
  <2>8. Typed
    BY <1>0, <1>a, <1>8, <2>1
  <2> QED
    BY <2>4, <2>5, <2>6, <2>7, <2>8
<1> QED
  BY <1>1, <1>2, <1>3, <1>4, <1>5, <1>6, <1>7, <1>8, CallKinds

\* What depends on the stores before the operation alone does not change with it.
LEMMA Steady ==
    ASSUME before' = before, writes' = writes, NEW job, NEW k, NEW w
    PROVE  /\ JobFits(job)' <=> JobFits(job)
           /\ JobCall(job, k)' = JobCall(job, k) /\ UndoCall(job, k, w)' = UndoCall(job, k, w)
           /\ BackLen(job)' = BackLen(job) /\ UndoLen(job, k)' = UndoLen(job, k)
           /\ OldEntry' = OldEntry /\ OldEmb' = OldEmb /\ OldNode' = OldNode /\ OldSig' = OldSig
           /\ \A j : OldKey(j)' = OldKey(j) /\ OldPresent(j)' = OldPresent(j)
<1>1. OldEntry' = OldEntry /\ OldEmb' = OldEmb /\ OldNode' = OldNode /\ OldSig' = OldSig
  BY DEF OldEntry, OldEmb, OldNode, OldSig
<1>2. \A j : OldKey(j)' = OldKey(j) /\ OldPresent(j)' = OldPresent(j)
  BY <1>1 DEF OldKey, OldPresent
<1>3. BackLen(job)' = BackLen(job)
  BY <1>1 DEF BackLen
<1>4. UndoLen(job, k)' = UndoLen(job, k)
  BY <1>3 DEF UndoLen
<1>5. JobFits(job)' <=> JobFits(job)
  BY <1>1, <1>2 DEF JobFits
<1>6. JobCall(job, k)' = JobCall(job, k)
  BY <1>1, <1>2 DEF JobCall, OutCall, InCall
<1>7. UndoCall(job, k, w)' = UndoCall(job, k, w)
  BY <1>1, <1>2, <1>3 DEF UndoCall, BackCall, DropCall, UnreplaceCall
<1> QED
  BY <1>1, <1>2, <1>3, <1>4, <1>5, <1>6, <1>7

LEMMA SteadyAt ==
    ASSUME before' = before, NEW job, NEW k
    PROVE  /\ \A j : RowAt(job, k, j)' = RowAt(job, k, j) /\ EmbAt(job, k, j)' = EmbAt(job, k, j)
                     /\ NodeAt(job, k, j)' = NodeAt(job, k, j)
           /\ \A d, x : SigAt(job, k, d, x)' = SigAt(job, k, d, x)
<1>1. OldEntry' = OldEntry /\ OldEmb' = OldEmb /\ OldNode' = OldNode /\ OldSig' = OldSig
  BY DEF OldEntry, OldEmb, OldNode, OldSig
<1> QED
  BY <1>1 DEF RowAt, EmbAt, NodeAt, SigAt, OldKey

\* More mishaps leave less to be known.
LEMMA SteadyRest ==
    ASSUME before' = before, writes' = writes, OldAtRest, torn \subseteq torn', blurred \subseteq blurred'
    PROVE  OldAtRest'
<1>1. OldEntry' = OldEntry /\ OldEmb' = OldEmb /\ OldNode' = OldNode /\ OldSig' = OldSig
  BY DEF OldEntry, OldEmb, OldNode, OldSig
<1>2. \A j : Sound(j)' => Sound(j)
  BY DEF Sound
<1>3. StoresTyped(OldEntry, OldEmb, OldNode, OldSig)'
  BY <1>1 DEF OldAtRest, AtRest, StoresTyped
<1>4. Unused(OldEntry, OldEmb, OldNode, OldSig, writes - 1)'
  BY <1>1 DEF OldAtRest, AtRest, Unused
<1>5. NoneOutlives(OldEntry, OldEmb, OldSig)'
  BY <1>1 DEF OldAtRest, AtRest, NoneOutlives
<1>6. SoundComplete(OldEntry, OldEmb, OldNode, OldSig)'
  BY <1>1, <1>2 DEF OldAtRest, AtRest, SoundComplete, Signed
<1> QED
  BY <1>3, <1>4, <1>5, <1>6 DEF OldAtRest, AtRest

LEMMA AtApplied ==
    ASSUME OldAtRest, NEW job \in Jobs, JobFits(job), NEW k \in Nat, k < JobLen(job), StoresAt(job, k),
           Apply(JobCall(job, k + 1)), before' = before
    PROVE  StoresAt(job, k + 1)'
<1> DEFINE c == JobCall(job, k + 1)
<1>1. StoresTyped(entry, emb, node, sig)
  BY AtTyped
<1>2. /\ c.store # "slot" /\ c.id \in Ids
      /\ c.store = "row" => c.val \in EntryRow /\ (c.id \in EntryIds /\ c.val.ver > 0 =>
                                   c.val.text \in Contents /\ c.val.domain \in Domains)
      /\ c.store \in {"emb", "node"} => c.val \in Nat
      /\ c.store = "sig" => c.val.key \in Domains \X Contents /\ c.val.to \in EntryIds \cup {NoId}
  BY NextAt
<1>3. /\ \A j \in Ids :
                /\ RowAt(job, k + 1, j) = IF c.store = "row" /\ c.id = j THEN c.val ELSE RowAt(job, k, j)
                /\ EmbAt(job, k + 1, j) = IF c.store = "emb" /\ c.id = j THEN c.val ELSE EmbAt(job, k, j)
                /\ NodeAt(job, k + 1, j) = IF c.store = "node" /\ c.id = j THEN c.val ELSE NodeAt(job, k, j)
      /\ \A d \in Domains, x \in Contents :
                SigAt(job, k + 1, d, x) = IF c.store = "sig" /\ <<d, x>> = c.val.key THEN c.val.to
                                          ELSE SigAt(job, k, d, x)
  BY NextAt
<1>4. Apply(c)
  OBVIOUS
<1> HIDE DEF c
<1>5. /\ \A j \in Ids : entry'[j] = IF c.store = "row" /\ c.id = j THEN c.val ELSE entry[j]
      /\ \A j \in Ids : emb'[j] = IF c.store = "emb" /\ c.id = j THEN c.val ELSE emb[j]
      /\ \A j \in Ids : node'[j] = IF c.store = "node" /\ c.id = j THEN c.val ELSE node[j]
      /\ c.store \notin {"sig", "slot"} => sig' = sig
  BY <1>1, <1>4, CallApplied
<1>6. /\ StoresTyped(entry', emb', node', sig')
      /\ c.store \in {"sig", "slot"} => \A d \in Domains, x \in Contents :
                sig'[d][x] = IF <<d, x>> = c.val.key /\ (c.store = "sig" \/ sig[d][x] = NoId)
                             THEN c.val.to ELSE sig[d][x]
  BY <1>1, <1>2, <1>4, ApplyTyped
<1>7. /\ \A j \in Ids : entry[j] = RowAt(job, k, j) /\ emb[j] = EmbAt(job, k, j)
                             /\ node[j] = NodeAt(job, k, j)
      /\ \A d \in Domains, x \in Contents : sig[d][x] = SigAt(job, k, d, x)
  BY StoresRead
<1>8. \A j \in Ids : entry'[j] = RowAt(job, k + 1, j) /\ emb'[j] = EmbAt(job, k + 1, j)
                     /\ node'[j] = NodeAt(job, k + 1, j)
  BY <1>3, <1>5, <1>7
<1>9. \A d \in Domains, x \in Contents : sig'[d][x] = SigAt(job, k + 1, d, x)
  BY <1>2, <1>3, <1>5, <1>6, <1>7
<1>10. /\ entry' = [j \in Ids |-> RowAt(job, k + 1, j)] /\ emb' = [j \in Ids |-> EmbAt(job, k + 1, j)]
       /\ node' = [j \in Ids |-> NodeAt(job, k + 1, j)]
  BY <1>6, <1>8 DEF StoresTyped
<1>11. sig' = [d \in Domains |-> [x \in Contents |-> SigAt(job, k + 1, d, x)]]
  <2>1. sig' \in [Domains -> [Contents -> EntryIds \cup {NoId}]]
    BY <1>6 DEF StoresTyped
  <2>2. \A d \in Domains : sig'[d] = [x \in Contents |-> SigAt(job, k + 1, d, x)]
    BY <2>1, <1>9
  <2> QED
    BY <2>1, <2>2
<1>12. /\ \A j : RowAt(job, k + 1, j)' = RowAt(job, k + 1, j) /\ EmbAt(job, k + 1, j)' = EmbAt(job, k + 1, j)
                     /\ NodeAt(job, k + 1, j)' = NodeAt(job, k + 1, j)
       /\ \A d, x : SigAt(job, k + 1, d, x)' = SigAt(job, k + 1, d, x)
  BY SteadyAt
<1> QED
  BY <1>10, <1>11, <1>12 DEF StoresAt

LEMMA OneLess ==
    \A n, k, c \in Nat : c \in 1..(n - 1) =>
        c + 1 \in 1..n /\ c \in 1..n /\ k + (c + 1) = k + 1 + c
  OBVIOUS

LEMMA DoingWorks ==
    ASSUME EngineLists, OldAtRest, NEW job \in Jobs, NEW k \in 0..8, Doing(job, k), CallWorks,
           mode = "doing"
    PROVE  EngineLists' /\ k + 1 \in 0..8 /\ Doing(job, k + 1)'
<1>1. /\ JobFits(job) /\ k <= JobLen(job) /\ Len(todo) = JobLen(job) - k /\ Len(undo) = Len(todo)
      /\ \A c \in 1..Len(todo) : todo[c] = JobCall(job, k + c) /\ IsUndo(undo[c], job, k + c)
      /\ StoresAt(job, k)
  BY DEF Doing
<1>2. /\ todo # <<>> /\ Apply(Head(todo)) /\ todo' = Tail(todo) /\ undo' = Tail(undo)
      /\ UNCHANGED <<mode, writes, mishaps, before, result, torn, blurred>>
  BY DEF CallWorks
<1>3. JobLen(job) \in 0..8
  BY JobShape
<1>4. /\ Len(todo) \in Nat /\ Len(todo) > 0 /\ Head(todo) = todo[1] /\ todo' \in Seq(EngineCall)
      /\ Len(todo') = Len(todo) - 1 /\ \A c \in 1..(Len(todo) - 1) : todo'[c] = todo[c + 1]
  BY <1>2, ListShape DEF EngineLists
<1>5. /\ undo' \in Seq(Seq(EngineCall))
      /\ Len(undo') = Len(undo) - 1 /\ \A c \in 1..(Len(undo) - 1) : undo'[c] = undo[c + 1]
  <2>1. undo # <<>>
    BY <1>1, <1>4
  <2> QED
    BY <1>2, <2>1, ListShape DEF EngineLists
<1>6. k < JobLen(job) /\ k + 1 <= JobLen(job) /\ k \in Nat
  <2>1. JobLen(job) \in Nat /\ JobLen(job) - k > 0 /\ k \in Nat
    BY <1>1, <1>3, <1>4
  <2> QED
    BY <2>1
<1>7. Head(todo) = JobCall(job, k + 1)
  <2>1. 1 \in 1..Len(todo)
    BY <1>4
  <2> QED
    BY <2>1, <1>1, <1>4
<1>8. StoresAt(job, k + 1)'
  BY <1>1, <1>2, <1>6, <1>7, AtApplied
<1>9. ASSUME NEW c \in 1..Len(todo')
      PROVE  todo'[c] = JobCall(job, k + 1 + c)' /\ IsUndo(undo[c], job, k + 1 + c)'
  <2>1. c + 1 \in 1..Len(todo) /\ c \in 1..(Len(todo) - 1) /\ k + (c + 1) = k + 1 + c
    <3>1. c \in 1..(Len(todo) - 1)
      BY <1>4
    <3>2. c \in Nat /\ Len(todo) \in Nat /\ k \in Nat
      BY <1>4, <1>6
    <3> QED
      BY <3>1, <3>2, OneLess
  <2>2. todo'[c] = JobCall(job, k + 1 + c) /\ IsUndo(undo'[c], job, k + 1 + c)
    <3>1. todo'[c] = todo[c + 1] /\ undo'[c] = undo[c + 1]
      BY <2>1, <1>1, <1>4, <1>5
    <3>2. todo[c + 1] = JobCall(job, k + (c + 1)) /\ IsUndo(undo[c + 1], job, k + (c + 1))
      BY <2>1, <1>1
    <3> QED
      BY <3>1, <3>2, <2>1
  <2>3. JobCall(job, k + 1 + c)' = JobCall(job, k + 1 + c)
    BY <1>2, Steady
  <2>4. UndoLen(job, k + 1 + c)' = UndoLen(job, k + 1 + c)
        /\ \A w : UndoCall(job, k + 1 + c, w)' = UndoCall(job, k + 1 + c, w)
    BY <1>2, Steady
  <2> QED
    BY <2>2, <2>3, <2>4 DEF IsUndo
<1>10. JobFits(job)'
  BY <1>1, <1>2, Steady
<1>11. Len(todo') = JobLen(job) - (k + 1) /\ Len(undo') = Len(todo') /\ k + 1 \in 0..8
  <2>1. Len(undo') = Len(todo')
    BY <1>1, <1>4, <1>5
  <2>2. Len(todo') = (JobLen(job) - k) - 1 /\ JobLen(job) \in Nat
    BY <1>1, <1>3, <1>4
  <2> QED
    BY <2>1, <2>2, <1>3, <1>6
<1>12. Doing(job, k + 1)'
  BY <1>6, <1>8, <1>9, <1>10, <1>11 DEF Doing
<1> QED
  BY <1>4, <1>5, <1>11, <1>12 DEF EngineLists

\* An entry is complete again when no call about it is to come.
LEMMA AtComplete ==
    ASSUME OldAtRest, NEW job \in Jobs, JobFits(job), NEW k \in Nat, k <= JobLen(job), StoresAt(job, k),
           NEW j \in Ids, Sound(j), j = job.id => k = JobLen(job), j = job.out => k >= job.p
    PROVE  emb[j] = entry[j].ver /\ node[j] = entry[j].ver /\ Signed(entry, sig, j)
<1>0. /\ job.p \in {0, 3, 4} /\ job.id # job.out /\ job.kind \in {"create", "replace", "forget"}
      /\ job.kind = "create" => JobLen(job) = job.p + 4
      /\ job.kind = "replace" => JobLen(job) = job.p + 3 /\ job.p = 0
      /\ job.kind = "forget" => job.id = NoId
      /\ job.p = 0 => job.out = NoId
      /\ NoId \notin Ids /\ NoRow.ver = 0 /\ EntryIds \subseteq Ids
  BY JobShape, JobApart, IdsApart, NoRowTyped DEF JobFits
<1>1. entry[j] = RowAt(job, k, j) /\ emb[j] = EmbAt(job, k, j) /\ node[j] = NodeAt(job, k, j)
  BY StoresRead
<1>2. \A d \in Domains, x \in Contents : sig[d][x] = SigAt(job, k, d, x)
  BY StoresRead
<1>3. CASE j = job.id
  <2>1. k = JobLen(job) /\ job.kind \in {"create", "replace"}
    BY <1>0, <1>3
  <2>2. k >= job.p + 1 /\ k >= job.p + 2 /\ k >= JobLen(job) /\ k >= job.p + 3
    BY <2>1, <1>0
  <2>3. entry[j] = job.row /\ emb[j] = job.row.ver /\ node[j] = job.row.ver
    BY <1>1, <1>3, <2>2 DEF RowAt, EmbAt, NodeAt
  <2>4. ASSUME j \in EntryIds PROVE sig[job.row.domain][job.row.text] = j
    <3>1. job.row.domain \in Domains /\ job.row.text \in Contents
      BY <2>4, <1>3 DEF JobFits
    <3>2. sig[job.row.domain][job.row.text] = SigAt(job, k, job.row.domain, job.row.text)
      BY <3>1, <1>2
    <3>3. CASE job.kind = "create"
      BY <3>2, <3>3, <2>2, <1>3 DEF SigAt, Sig
    <3>4. CASE job.kind = "replace"
      BY <3>2, <3>4, <2>4, <1>0, <1>3 DEF SigAt, JobFits
    <3> QED
      BY <2>1, <3>3, <3>4
  <2> QED
    BY <2>3, <2>4 DEF Signed
<1>4. CASE j = job.out
  <2>1. job.p \in {3, 4} /\ j # job.id
    BY <1>0, <1>4
  <2>2. k >= 2 /\ k >= 1 /\ k >= job.p
    BY <2>1, <1>4
  <2>3. entry[j] = NoRow /\ emb[j] = 0 /\ node[j] = 0
    BY <1>1, <1>4, <2>1, <2>2 DEF RowAt, EmbAt, NodeAt
  <2> QED
    BY <2>3, <1>0 DEF Signed
<1>5. CASE j # job.id /\ j # job.out
  <2>1. entry[j] = OldEntry[j] /\ emb[j] = OldEmb[j] /\ node[j] = OldNode[j]
    BY <1>1, <1>5 DEF RowAt, EmbAt, NodeAt
  <2>2. OldEmb[j] = OldEntry[j].ver /\ OldNode[j] = OldEntry[j].ver
    BY DEF OldAtRest, AtRest, SoundComplete
  <2>3. ASSUME j \in EntryIds, OldEntry[j].ver > 0
        PROVE  sig[OldEntry[j].domain][OldEntry[j].text] = j
    <3>1. /\ OldSig[OldEntry[j].domain][OldEntry[j].text] = j
          /\ OldEntry[j].domain \in Domains /\ OldEntry[j].text \in Contents
          /\ job.kind = "create" => OldKey(j) # Sig(job.row)
          /\ j # job.out /\ job.p = 4 => OldKey(j) # OldKey(job.out)
      BY <2>3, KeysApart DEF OldPresent
    <3>2. sig[OldEntry[j].domain][OldEntry[j].text] = SigAt(job, k, OldEntry[j].domain, OldEntry[j].text)
      BY <3>1, <1>2
    <3>3. OldKey(j) = <<OldEntry[j].domain, OldEntry[j].text>>
      BY DEF OldKey, Sig
    <3> QED
      BY <1>5, <3>1, <3>2, <3>3 DEF SigAt
  <2> QED
    BY <2>1, <2>2, <2>3 DEF Signed
<1> QED
  BY <1>3, <1>4, <1>5

\* The last call about either entry.
LEMMA LastCalls ==
    ASSUME NEW job \in Jobs, JobFits(job)
    PROVE  /\ job.kind # "forget" => JobCall(job, JobLen(job)).id = job.id
           /\ job.p > 0 => JobCall(job, job.p).id = job.out
<1> USE JobShape
<1>1. ASSUME job.kind # "forget" PROVE JobCall(job, JobLen(job)).id = job.id
  <2>1. ~(JobLen(job) <= job.p) /\ JobLen(job) - job.p \in {3, 4}
    BY <1>1
  <2> QED
    BY <2>1 DEF JobCall, InCall, Must
<1>2. ASSUME job.p > 0 PROVE JobCall(job, job.p).id = job.out
  BY <1>2 DEF JobCall, OutCall, Must
<1> QED
  BY <1>1, <1>2

\* The process begins again with what the stores hold.
LEMMA RestartRests ==
    ASSUME EngineInv, Restart, StoresTyped(entry, emb, node, sig),
           Unused(entry, emb, node, sig, writes), NoneOutlives(entry, emb, sig),
           \A j \in Ids : Sound(j)' => emb[j] = entry[j].ver /\ Signed(entry, sig, j)
    PROVE  EngineInv'
<1>1. /\ mode' = "idle" /\ todo' = <<>> /\ undo' = <<>> /\ node' = emb /\ result' = "ok"
      /\ mishaps < MaxMishaps /\ mishaps' = mishaps + 1
      /\ UNCHANGED <<entry, emb, sig, writes, before, blurred>>
  BY DEF Restart, Mishap
<1>2. EngineLists'
  <2>1. <<>> \in Seq(EngineCall) /\ <<>> \in Seq(Seq(EngineCall))
    OBVIOUS
  <2> QED
    BY <1>1, <2>1 DEF EngineLists
<1>3. torn' \subseteq Ids
  <2>1. \A c \in 1..Len(todo) : todo[c].id \in Ids
    <3>1. \A c \in 1..Len(todo) : todo[c] \in EngineCall
      BY DEF EngineInv, EngineLists
    <3> QED
      BY <3>1 DEF EngineCall
  <2>2. torn \subseteq Ids
    BY DEF EngineInv
  <2>3. torn' = torn \/ torn' = torn \cup {todo[c].id : c \in 1..Len(todo)}
    BY DEF Restart
  <2> QED
    BY <2>1, <2>2, <2>3
<1>4. StoresTyped(entry, emb, node, sig)'
  BY <1>1 DEF StoresTyped
<1>5. Unused(entry, emb, node, sig, writes)'
  BY <1>1 DEF Unused
<1>6. NoneOutlives(entry, emb, sig)'
  BY <1>1 DEF NoneOutlives
<1>7. SoundComplete(entry, emb, node, sig)'
  BY <1>1 DEF SoundComplete, Signed
<1>8. mishaps' \in 0..MaxMishaps
  BY <1>1, IdsApart DEF EngineInv
<1>9. writes' \in 0..MaxWrites /\ blurred' \subseteq Ids
  BY <1>1 DEF EngineInv
<1>10. AtRest(entry, emb, node, sig, writes)'
  BY <1>4, <1>5, <1>6, <1>7 DEF AtRest
<1> QED
  BY <1>1, <1>2, <1>3, <1>8, <1>9, <1>10 DEF EngineInv

LEMMA DoingRestart ==
    ASSUME EngineInv, OldAtRest, mode = "doing", Restart, NEW job \in Jobs, NEW k \in 0..8, Doing(job, k)
    PROVE  EngineInv'
<1>1. /\ JobFits(job) /\ k <= JobLen(job) /\ Len(todo) = JobLen(job) - k
      /\ \A c \in 1..Len(todo) : todo[c] = JobCall(job, k + c)
      /\ StoresAt(job, k) /\ k \in Nat
  BY DEF Doing
<1>2. torn' = torn \cup {todo[c].id : c \in 1..Len(todo)} /\ blurred' = blurred
  BY DEF Restart
<1>3. /\ job.p \in Nat /\ JobLen(job) \in Nat /\ JobLen(job) >= job.p
      /\ job.kind = "forget" => job.id = NoId
      /\ job.p = 0 => job.out = NoId
  BY <1>1, JobShape DEF JobFits
<1>4. ASSUME NEW m \in Nat, m > k, m <= JobLen(job) PROVE JobCall(job, m).id \in torn'
  <2>1. m - k \in 1..Len(todo) /\ k + (m - k) = m
    BY <1>1, <1>3, <1>4
  <2>2. todo[m - k] = JobCall(job, m)
    BY <2>1, <1>1
  <2> QED
    BY <2>1, <2>2, <1>2
<1>5. ASSUME NEW j \in Ids, Sound(j)' PROVE emb[j] = entry[j].ver /\ Signed(entry, sig, j)
  <2>1. Sound(j) /\ j \notin torn'
    BY <1>2, <1>5 DEF Sound
  <2>2. ASSUME j = job.id PROVE k = JobLen(job)
    <3>1. job.kind # "forget"
      BY <2>2, <1>3, IdsApart
    <3>2. JobCall(job, JobLen(job)).id = j
      BY <3>1, <2>2, <1>1, LastCalls
    <3> QED
      BY <3>2, <2>1, <1>1, <1>3, <1>4
  <2>3. ASSUME j = job.out PROVE k >= job.p
    <3>1. job.p > 0
      BY <2>3, <1>3, IdsApart
    <3>2. JobCall(job, job.p).id = j
      BY <3>1, <2>3, <1>1, LastCalls
    <3> QED
      BY <3>2, <2>1, <1>1, <1>3, <1>4
  <2> QED
    BY <2>1, <2>2, <2>3, <1>1, AtComplete
<1> QED
  BY <1>1, <1>5, RestartRests, AtTyped, AtUnused, AtNoneOutlives

LEMMA DoingEnds ==
    ASSUME EngineInv, OldAtRest, mode = "doing", OperationEnds, NEW job \in Jobs, NEW k \in 0..8,
           Doing(job, k)
    PROVE  EngineInv'
<1>1. /\ JobFits(job) /\ k <= JobLen(job) /\ Len(todo) = JobLen(job) - k /\ StoresAt(job, k) /\ k \in Nat
  BY DEF Doing
<1>2. /\ todo = <<>> /\ mode' = "idle" /\ undo' = <<>>
      /\ UNCHANGED <<entry, emb, node, sig, todo, writes, mishaps, before, result, torn, blurred>>
  BY DEF OperationEnds, stores
<1>3. job.p \in Nat /\ JobLen(job) \in Nat /\ JobLen(job) >= job.p /\ Len(todo) = 0
  BY <1>2, JobShape
<1>4. k = JobLen(job) /\ k >= job.p
  BY <1>1, <1>3
<1>5. StoresTyped(entry, emb, node, sig) /\ Unused(entry, emb, node, sig, writes) /\ NoneOutlives(entry, emb, sig)
  BY <1>1, AtTyped, AtUnused, AtNoneOutlives
<1>6. SoundComplete(entry, emb, node, sig)
  BY <1>1, <1>4, AtComplete DEF SoundComplete
<1>7. AtRest(entry, emb, node, sig, writes)
  BY <1>5, <1>6 DEF AtRest
<1>8. AtRest(entry, emb, node, sig, writes)'
  BY <1>2, <1>7 DEF AtRest, StoresTyped, Unused, NoneOutlives, SoundComplete, Signed, Sound
<1>9. EngineLists'
  <2>1. <<>> \in Seq(Seq(EngineCall))
    OBVIOUS
  <2> QED
    BY <1>2, <2>1 DEF EngineInv, EngineLists
<1>10. result' = "ok"
  BY <1>2 DEF EngineInv
<1> QED
  BY <1>2, <1>8, <1>9, <1>10 DEF EngineInv

\* The signature of an entry the operation is not about stays in its place.
LEMMA AtOthersSigned ==
    ASSUME OldAtRest, NEW job \in Jobs, JobFits(job), NEW k \in Nat, StoresAt(job, k),
           NEW j \in Ids, j # job.id, j # job.out, Sound(j)
    PROVE  Signed(OldEntry, sig, j)
<1> SUFFICES ASSUME j \in EntryIds, OldEntry[j].ver > 0
             PROVE  sig[OldEntry[j].domain][OldEntry[j].text] = j
  BY DEF Signed
<1>1. /\ OldSig[OldEntry[j].domain][OldEntry[j].text] = j
      /\ OldEntry[j].domain \in Domains /\ OldEntry[j].text \in Contents
      /\ job.kind = "create" => OldKey(j) # Sig(job.row)
      /\ j # job.out /\ job.p = 4 => OldKey(j) # OldKey(job.out)
  BY KeysApart DEF OldPresent
<1>2. sig[OldEntry[j].domain][OldEntry[j].text] = SigAt(job, k, OldEntry[j].domain, OldEntry[j].text)
  BY <1>1, StoresRead
<1>3. OldKey(j) = <<OldEntry[j].domain, OldEntry[j].text>>
  BY DEF OldKey, Sig
<1> QED
  BY <1>1, <1>2, <1>3 DEF SigAt

\* A call that fails leaves the stores alone; the index may have taken it in.
LEMMA FailKeeps ==
    ASSUME NEW c, FailedApply(c), StoresTyped(entry, emb, node, sig),
           c.store = "node" => c.val \in Nat /\ c.id \in Ids
    PROVE  /\ entry' = entry /\ emb' = emb /\ sig' = sig
           /\ \A j \in Ids : node'[j] = node[j] \/ (c.store = "node" /\ c.id = j /\ c.val > 0)
           /\ node' \in [Ids -> Nat] /\ StoresTyped(entry', emb', node', sig')
<1>1. CASE UNCHANGED stores
  BY <1>1 DEF stores, StoresTyped
<1>2. CASE c.store = "node" /\ c.val > 0 /\ Apply(c)
  <2>1. entry' = entry /\ emb' = emb /\ sig' = sig
    BY <1>2, CallApplied
  <2>2. \A j \in Ids : node'[j] = IF c.store = "node" /\ c.id = j THEN c.val ELSE node[j]
    BY <1>2, CallApplied
  <2>3. node' \in [Ids -> Nat]
    BY <1>2 DEF Apply, StoresTyped
  <2> QED
    BY <1>2, <2>1, <2>2, <2>3 DEF StoresTyped
<1> QED
  BY <1>1, <1>2 DEF FailedApply

\* What an undo begins with.
LEMMA FailsAt ==
    ASSUME OldAtRest, NEW job \in Jobs, JobFits(job), NEW k \in Nat, k < JobLen(job), StoresAt(job, k),
           FailedApply(JobCall(job, k + 1)), before' = before, writes' = writes, torn \subseteq torn',
           blurred' = blurred
    PROVE  /\ entry' = entry /\ emb' = emb /\ sig' = sig
           /\ \A j \in Ids : node'[j] = node[j] \/ (k = JobLen(job) - 1 /\ k >= job.p + 2 /\ j = job.id)
           /\ OthersKept(job)' /\ StoresTyped(entry, emb, node, sig)'
           /\ NoneOutlives(entry, emb, sig)' /\ Unused(entry, emb, node, sig, writes)'
<1> DEFINE c == JobCall(job, k + 1)
<1>0. /\ NoId \notin Ids /\ EntryIds \subseteq Ids /\ job.p \in Nat /\ JobLen(job) \in Nat
      /\ JobLen(job) >= job.p /\ job.id # job.out /\ writes \in Nat
      /\ job.id \in EntryIds => job.id <= writes
  BY IdsApart, JobShape, JobApart DEF OldAtRest
<1>1. StoresTyped(entry, emb, node, sig) /\ NoneOutlives(entry, emb, sig)
      /\ Unused(entry, emb, node, sig, writes)
  BY AtTyped, AtNoneOutlives, AtUnused
<1>2. c.store = "node" => c.val \in Nat /\ c.id \in Ids
  BY NextAt
<1>3. c.store = "node" /\ c.val > 0 => k = JobLen(job) - 1 /\ k >= job.p + 2 /\ c.id = job.id
  <2>1. CASE c = Must("node", job.out, 0)
    BY <2>1 DEF Must
  <2>2. CASE c = Must("emb", job.out, 0)
    BY <2>2 DEF Must
  <2>3. CASE c = Must("sig", job.out, [key |-> OldKey(job.out), to |-> NoId])
    BY <2>3 DEF Must
  <2>4. CASE c = Must("row", job.out, NoRow)
    BY <2>4 DEF Must
  <2>5. CASE c = Must("row", job.id, job.row)
    BY <2>5 DEF Must
  <2>6. CASE c = Must("emb", job.id, job.row.ver)
    BY <2>6 DEF Must
  <2>7. CASE c = Must("sig", job.id, [key |-> Sig(job.row), to |-> job.id])
    BY <2>7 DEF Must
  <2>8. CASE k = JobLen(job) - 1 /\ k >= job.p + 2 /\ c = Must("node", job.id, job.row.ver)
    BY <2>8 DEF Must
  <2> QED
    BY <2>1, <2>2, <2>3, <2>4, <2>5, <2>6, <2>7, <2>8, CallKinds
<1>4. FailedApply(c)
  OBVIOUS
<1> HIDE DEF c
<1>5. /\ entry' = entry /\ emb' = emb /\ sig' = sig
      /\ \A j \in Ids : node'[j] = node[j] \/ (c.store = "node" /\ c.id = j /\ c.val > 0)
      /\ StoresTyped(entry', emb', node', sig')
  BY <1>1, <1>2, <1>4, FailKeeps
<1>6. \A j \in Ids : node'[j] = node[j] \/ (k = JobLen(job) - 1 /\ k >= job.p + 2 /\ j = job.id)
  BY <1>3, <1>5
<1>7. OthersKept(job)'
  <2>1. ASSUME NEW j \in Ids \ {job.id, job.out}
        PROVE  entry'[j] = OldEntry[j] /\ emb'[j] = OldEmb[j] /\ node'[j] = OldNode[j]
    <3>1. entry[j] = RowAt(job, k, j) /\ emb[j] = EmbAt(job, k, j) /\ node[j] = NodeAt(job, k, j)
      BY StoresRead
    <3> QED
      BY <1>5, <1>6, <3>1 DEF RowAt, EmbAt, NodeAt
  <2>2. ASSUME NEW j \in Ids \ {job.id, job.out}, Sound(j)'
        PROVE  Signed(OldEntry, sig', j)
    <3>1. Sound(j)
      BY <2>2 DEF Sound
    <3> QED
      BY <3>1, <1>5, AtOthersSigned
  <2>3. OldEntry' = OldEntry /\ OldEmb' = OldEmb /\ OldNode' = OldNode /\ OldSig' = OldSig
    BY DEF OldEntry, OldEmb, OldNode, OldSig
  <2> QED
    BY <2>1, <2>2, <2>3 DEF OthersKept, Signed
<1>8. StoresTyped(entry, emb, node, sig)'
  BY <1>5 DEF StoresTyped
<1>9. NoneOutlives(entry, emb, sig)'
  BY <1>1, <1>5 DEF NoneOutlives
<1>10. Unused(entry, emb, node, sig, writes)'
  <2> SUFFICES ASSUME NEW j \in EntryIds, j > writes
               PROVE  /\ entry'[j] = NoRow /\ emb'[j] = 0 /\ node'[j] = 0
                      /\ \A d \in Domains, x \in Contents : sig'[d][x] # j
    BY DEF Unused
  <2>1. j # job.id /\ j \in Ids
    BY <1>0, IdsApart
  <2> QED
    BY <2>1, <1>1, <1>5, <1>6 DEF Unused
<1> QED
  BY <1>5, <1>6, <1>7, <1>8, <1>9, <1>10

\* What the creation's entry and the evicted one are when call k + 1 fails.
LEMMA CreateFailed ==
    ASSUME OldAtRest, NEW job \in Jobs, JobFits(job), NEW k \in Nat, k < JobLen(job), k >= job.p,
           StoresAt(job, k), job.kind = "create", NEW q, q = IF k - job.p = 3 THEN 4 ELSE k - job.p
    PROVE  /\ entry[job.id] = (IF q >= 1 THEN job.row ELSE NoRow)
           /\ emb[job.id] = (IF q >= 2 THEN job.row.ver ELSE 0)
           /\ node[job.id] = 0
           /\ q < 3 => sig[job.row.domain][job.row.text] # job.id
           /\ job.out \in Ids => entry[job.out] = NoRow /\ emb[job.out] = 0 /\ node[job.out] = 0
           /\ job.p = 4 /\ Sound(job.out) =>
                sig[OldEntry[job.out].domain][OldEntry[job.out].text] = NoId
           /\ \A d \in Domains, x \in Contents :
                 sig[d][x] = IF job.kind = "create" /\ <<d, x>> = Sig(job.row) /\ q >= 3 THEN job.id
                             ELSE IF job.p = 4 /\ <<d, x>> = OldKey(job.out) THEN NoId
                             ELSE OldSig[d][x]
<1>0. /\ job.p \in {0, 3, 4} /\ JobLen(job) = job.p + 4 /\ job.id \in EntryIds /\ job.id \in Ids
      /\ job.id = writes /\ job.id # job.out /\ NoId \notin Ids /\ job.id # NoId /\ NoId # job.id
      /\ job.row.domain \in Domains /\ job.row.text \in Contents
      /\ job.out \in Ids => job.p \in {3, 4}
      /\ job.p = 4 => job.out \in EntryIds /\ OldPresent(job.out)
      /\ Sig(job.row) = <<job.row.domain, job.row.text>>
  BY JobShape, JobApart, IdsApart DEF JobFits
<1>1. k - job.p \in 0..3 /\ q \in {0, 1, 2, 4}
  BY <1>0
<1>2. /\ k >= job.p + 1 <=> q >= 1
      /\ k >= job.p + 2 <=> q >= 2
      /\ k >= job.p + 3 <=> q >= 3
      /\ ~(k >= JobLen(job))
  <2>1. job.p \in Nat /\ k \in Nat /\ JobLen(job) = job.p + 4
    BY <1>0
  <2>2. \/ k = job.p /\ q = 0
        \/ k = job.p + 1 /\ q = 1
        \/ k = job.p + 2 /\ q = 2
        \/ k = job.p + 3 /\ q = 4
    BY <1>1, <2>1
  <2> QED
    BY <2>1, <2>2
<1>3. /\ OldEntry[job.id] = NoRow /\ OldEmb[job.id] = 0 /\ OldNode[job.id] = 0
      /\ \A d \in Domains, x \in Contents : OldSig[d][x] # job.id
  <2>1. job.id > writes - 1
    BY <1>0 DEF OldAtRest
  <2> QED
    BY <2>1, <1>0 DEF OldAtRest, AtRest, Unused
<1>4. /\ entry[job.id] = RowAt(job, k, job.id) /\ emb[job.id] = EmbAt(job, k, job.id)
      /\ node[job.id] = NodeAt(job, k, job.id)
      /\ \A d \in Domains, x \in Contents : sig[d][x] = SigAt(job, k, d, x)
  BY <1>0, StoresRead
<1>5. /\ entry[job.id] = (IF q >= 1 THEN job.row ELSE NoRow)
      /\ emb[job.id] = (IF q >= 2 THEN job.row.ver ELSE 0) /\ node[job.id] = 0
  BY <1>0, <1>2, <1>3, <1>4 DEF RowAt, EmbAt, NodeAt
<1>6. \A d \in Domains, x \in Contents :
                 sig[d][x] = IF job.kind = "create" /\ <<d, x>> = Sig(job.row) /\ q >= 3 THEN job.id
                             ELSE IF job.p = 4 /\ <<d, x>> = OldKey(job.out) THEN NoId
                             ELSE OldSig[d][x]
  <2>1. job.p = 4 => k >= 3
    BY <1>0
  <2> QED
    BY <2>1, <1>2, <1>4 DEF SigAt
<1>7. q < 3 => sig[job.row.domain][job.row.text] # job.id
  <2>1. q < 3 => ~(q >= 3)
    BY <1>1
  <2> QED
    BY <2>1, <1>0, <1>3, <1>6
<1>8. ASSUME job.out \in Ids PROVE entry[job.out] = NoRow /\ emb[job.out] = 0 /\ node[job.out] = 0
  <2>1. /\ entry[job.out] = RowAt(job, k, job.out) /\ emb[job.out] = EmbAt(job, k, job.out)
        /\ node[job.out] = NodeAt(job, k, job.out)
    BY <1>8, StoresRead
  <2>2. k >= 1 /\ k >= 2 /\ k >= job.p
    BY <1>0, <1>8
  <2> QED
    BY <1>0, <2>1, <2>2 DEF RowAt, EmbAt, NodeAt
<1>9. ASSUME job.p = 4, Sound(job.out)
      PROVE  sig[OldEntry[job.out].domain][OldEntry[job.out].text] = NoId
  <2>1. /\ OldEntry[job.out].domain \in Domains /\ OldEntry[job.out].text \in Contents
        /\ OldKey(job.out) # Sig(job.row)
    BY <1>0, <1>9, KeysApart
  <2>2. OldKey(job.out) = <<OldEntry[job.out].domain, OldEntry[job.out].text>>
    BY DEF OldKey, Sig
  <2> QED
    BY <1>6, <1>9, <2>1, <2>2
<1> QED
  BY <1>5, <1>6, <1>7, <1>8, <1>9

LEMMA ReplaceFailed ==
    ASSUME OldAtRest, NEW job \in Jobs, JobFits(job), NEW k \in Nat, k < JobLen(job),
           StoresAt(job, k), job.kind = "replace"
    PROVE  /\ k \in 0..2 /\ job.p = 0 /\ job.id \in Ids
           /\ entry[job.id] = (IF k >= 1 THEN job.row ELSE OldEntry[job.id])
           /\ k < 2 => emb[job.id] = OldEmb[job.id]
           /\ node[job.id] = OldNode[job.id]
           /\ sig = OldSig
<1>0. /\ job.p = 0 /\ JobLen(job) = 3 /\ job.id \in Ids /\ job.out = NoId /\ job.id # job.out
  BY JobShape, JobApart DEF JobFits
<1>1. k \in 0..2 /\ ~(k >= JobLen(job))
  BY <1>0
<1>2. /\ entry[job.id] = RowAt(job, k, job.id) /\ emb[job.id] = EmbAt(job, k, job.id)
      /\ node[job.id] = NodeAt(job, k, job.id)
      /\ \A d \in Domains, x \in Contents : sig[d][x] = SigAt(job, k, d, x)
  BY <1>0, StoresRead
<1>3. entry[job.id] = (IF k >= 1 THEN job.row ELSE OldEntry[job.id])
  BY <1>0, <1>1, <1>2 DEF RowAt
<1>4. k < 2 => emb[job.id] = OldEmb[job.id]
  BY <1>0, <1>1, <1>2 DEF EmbAt
<1>5. node[job.id] = OldNode[job.id]
  BY <1>0, <1>1, <1>2 DEF NodeAt
<1>6. \A d \in Domains, x \in Contents : sig[d][x] = OldSig[d][x]
  BY <1>0, <1>2 DEF SigAt
<1>7. /\ sig \in [Domains -> [Contents -> EntryIds \cup {NoId}]]
      /\ OldSig \in [Domains -> [Contents -> EntryIds \cup {NoId}]]
  BY AtTyped DEF StoresTyped, OldAtRest, AtRest
<1>8. \A d \in Domains : sig[d] = OldSig[d]
  BY <1>6, <1>7
<1>9. sig = OldSig
  BY <1>7, <1>8
<1> QED
  BY <1>0, <1>1, <1>3, <1>4, <1>5, <1>9

LEMMA RemovesIs ==
    ASSUME NEW c
    PROVE  /\ c.store = "row" /\ c.val = NoRow => Removes(c)
           /\ c.store = "sig" /\ c.val.to = NoId => Removes(c)
           /\ c.store \in {"emb", "node"} /\ c.val = 0 => Removes(c)
<1>1. ASSUME c.store = "row", c.val = NoRow PROVE Removes(c)
  BY <1>1, Zenon DEF Removes
<1>2. ASSUME c.store = "sig", c.val.to = NoId PROVE Removes(c)
  BY <1>2, Zenon DEF Removes
<1>3. ASSUME c.store = "emb", c.val = 0 PROVE Removes(c)
  BY <1>3, Zenon DEF Removes
<1>4. ASSUME c.store = "node", c.val = 0 PROVE Removes(c)
  BY <1>4, Zenon DEF Removes
<1> QED
  BY <1>1, <1>2, <1>3, <1>4

\* A call that takes an entry out is one that removes.
LEMMA OutRemoves ==
    ASSUME NEW job \in Jobs, NEW k \in Nat, k < job.p
    PROVE  Removes(JobCall(job, k + 1)) /\ JobCall(job, k + 1).id = job.out
<1>0. job.p \in {0, 3, 4} /\ k + 1 <= job.p
  BY JobShape
<1>1. JobCall(job, k + 1) = OutCall(job, k + 1)
  BY <1>0 DEF JobCall
<1>2. \/ OutCall(job, k + 1) = Must("node", job.out, 0)
      \/ OutCall(job, k + 1) = Must("emb", job.out, 0)
      \/ OutCall(job, k + 1) = Must("row", job.out, NoRow)
      \/ OutCall(job, k + 1) = Must("sig", job.out, [key |-> OldKey(job.out), to |-> NoId])
  BY DEF OutCall
<1>3. CASE OutCall(job, k + 1) = Must("node", job.out, 0)
  BY <1>1, <1>3, RemovesIs DEF Must
<1>4. CASE OutCall(job, k + 1) = Must("emb", job.out, 0)
  BY <1>1, <1>4, RemovesIs DEF Must
<1>5. CASE OutCall(job, k + 1) = Must("row", job.out, NoRow)
  BY <1>1, <1>5, RemovesIs DEF Must
<1>6. CASE OutCall(job, k + 1) = Must("sig", job.out, [key |-> OldKey(job.out), to |-> NoId])
  BY <1>1, <1>6, RemovesIs DEF Must
<1> QED
  BY <1>2, <1>3, <1>4, <1>5, <1>6

LEMMA DoingFails ==
    ASSUME EngineLists, OldAtRest, NEW job \in Jobs, NEW k \in 0..8, Doing(job, k), CallFails
    PROVE  EngineLists' /\ k + 1 \in 1..8 /\ Undoing(job, k + 1)'
<1>1. /\ JobFits(job) /\ k <= JobLen(job) /\ Len(todo) = JobLen(job) - k /\ Len(undo) = Len(todo)
      /\ \A c \in 1..Len(todo) : todo[c] = JobCall(job, k + c) /\ IsUndo(undo[c], job, k + c)
      /\ StoresAt(job, k)
  BY DEF Doing
<1>2. /\ todo # <<>> /\ FailedApply(Head(todo)) /\ todo' = Head(undo) /\ undo' = <<>>
      /\ torn' = (IF Removes(Head(todo)) THEN torn \cup {Head(todo).id} ELSE torn)
      /\ UNCHANGED <<writes, before, blurred>>
  BY DEF CallFails
<1>3. JobLen(job) \in 0..8 /\ k \in Nat /\ job.p \in {0, 3, 4} /\ job.p \in Nat
  BY JobShape
<1>4. Len(todo) \in Nat /\ Len(todo) > 0 /\ Head(todo) = todo[1] /\ 1 \in 1..Len(todo)
  BY <1>2, ListShape DEF EngineLists
<1>5. undo # <<>>
  BY <1>1, <1>4
<1>6. Head(undo) = undo[1] /\ undo[1] \in Seq(EngineCall)
  BY <1>5, ListShape DEF EngineLists
<1>7. EngineLists'
  <2>1. <<>> \in Seq(Seq(EngineCall))
    OBVIOUS
  <2> QED
    BY <2>1, <1>2, <1>6 DEF EngineLists
<1>8. k < JobLen(job) /\ k + 1 \in 1..8 /\ k + 1 <= JobLen(job)
  BY <1>1, <1>3, <1>4
<1>9. Head(todo) = JobCall(job, k + 1) /\ IsUndo(todo', job, k + 1)
  BY <1>1, <1>2, <1>4, <1>6
<1>10. /\ entry' = entry /\ emb' = emb /\ sig' = sig
       /\ \A j \in Ids : node'[j] = node[j] \/ (k = JobLen(job) - 1 /\ k >= job.p + 2 /\ j = job.id)
       /\ OthersKept(job)' /\ StoresTyped(entry, emb, node, sig)'
       /\ NoneOutlives(entry, emb, sig)' /\ Unused(entry, emb, node, sig, writes)'
  <2>1. torn \subseteq torn'
    BY <1>2
  <2> QED
    BY <2>1, <1>1, <1>2, <1>3, <1>8, <1>9, FailsAt
<1>11. /\ OldEntry' = OldEntry /\ OldEmb' = OldEmb /\ OldNode' = OldNode /\ OldSig' = OldSig
       /\ JobFits(job)' /\ BackLen(job)' = BackLen(job) /\ UndoLen(job, k + 1)' = UndoLen(job, k + 1)
       /\ \A w : UndoCall(job, k + 1, w)' = UndoCall(job, k + 1, w)
       /\ \A j : OldKey(j)' = OldKey(j)
  BY <1>1, <1>2, Steady
<1>12. \A j : Sound(j)' => Sound(j)
  BY <1>2 DEF Sound
<1>13. /\ Len(todo') = UndoLen(job, k + 1)
       /\ \A c \in 1..Len(todo') : todo'[c] = UndoCall(job, k + 1, Len(todo') - c + 1)
  BY <1>9 DEF IsUndo
<1>14. CASE k < job.p
  <2>1. k + 1 <= job.p /\ UndoLen(job, k + 1) = 0
    BY <1>3, <1>14 DEF UndoLen
  <2>2. todo' = <<>>
    BY <2>1, <1>2, <1>6, <1>13
  <2>3. job.out \in torn'
    BY <1>2, <1>3, <1>9, <1>14, OutRemoves
  <2>4. ASSUME job.id \in Ids
        PROVE  entry'[job.id] = OldEntry[job.id] /\ emb'[job.id] = OldEmb[job.id] /\ node'[job.id] = OldNode[job.id]
    <3>1. /\ entry[job.id] = RowAt(job, k, job.id) /\ emb[job.id] = EmbAt(job, k, job.id)
          /\ node[job.id] = NodeAt(job, k, job.id)
      BY <2>4, <1>1, StoresRead
    <3>2. job.id # job.out
      BY <1>1, JobApart
    <3>3. ~(k >= job.p + 1) /\ ~(k >= job.p + 2) /\ ~(k >= JobLen(job))
      BY <1>3, <1>8, <1>14
    <3>4. entry[job.id] = OldEntry[job.id] /\ emb[job.id] = OldEmb[job.id] /\ node[job.id] = OldNode[job.id]
      BY <3>1, <3>2, <3>3 DEF RowAt, EmbAt, NodeAt
    <3> QED
      BY <2>4, <3>3, <3>4, <1>10
  <2> QED
    BY <2>1, <2>2, <2>3, <2>4, <1>7, <1>8, <1>10, <1>11 DEF Undoing, OutTorn, UndoKept
<1>15. CASE ~(k < job.p)
  <2>0. k >= job.p /\ k + 1 > job.p /\ ~(k + 1 <= job.p) /\ job.kind # "forget"
    BY <1>3, <1>8, <1>15, JobShape
  <2> DEFINE e == IF k - job.p = 3 THEN 4 ELSE k - job.p
  <2>n. Len(todo') \in Nat
    BY <1>2, <1>6
  <2>1. BackLen(job) \in {0, 2, 4}
    BY JobShape
  <2>p. PICK n \in Nat, z \in Nat, q \in Nat : n = Len(todo') /\ z = LeastOf(n, BackLen(job)) /\ q = n - z
    <3>1. LeastOf(Len(todo'), BackLen(job)) \in Nat /\ Len(todo') - LeastOf(Len(todo'), BackLen(job)) \in Nat
      BY <2>1, <2>n DEF LeastOf
    <3> QED
      BY <2>n, <3>1
  <2>2. ASSUME job.kind = "create" PROVE z = BackLen(job) /\ q = e /\ e \in {0, 1, 2, 4}
    <3>1. k - job.p \in 0..3 /\ (k + 1) - job.p - 1 = k - job.p /\ ((k + 1) - job.p = 4 <=> k - job.p = 3)
      BY <1>3, <1>8, <2>0, <2>2, JobShape
    <3>2. n = BackLen(job) + e
      BY <1>13, <2>p, <2>0, <2>2, <3>1 DEF UndoLen
    <3> QED
      BY <2>1, <2>p, <3>1, <3>2 DEF LeastOf
  <2>3. ASSUME job.kind = "replace" PROVE BackLen(job) = 0 /\ n = (IF k = 2 THEN 3 ELSE k) /\ k \in 0..2
    <3>1. job.p = 0 /\ JobLen(job) = 3 /\ job.out = NoId
      BY <1>1, <2>3, JobShape DEF JobFits
    <3>2. k \in 0..2 /\ (k + 1 = 3 <=> k = 2) /\ k + 1 - 1 = k
      BY <3>1, <1>3, <1>8
    <3> QED
      BY <1>13, <2>0, <2>p, <2>3, <3>1, <3>2 DEF UndoLen, BackLen
  <2> HIDE DEF e
  <2>4. job.out \in Ids => job.kind = "create"
    BY <1>1, <2>0, IdsApart, JobShape DEF JobFits
  <2>5. ASSUME job.kind = "create"
        PROVE  /\ entry[job.id] = (IF e >= 1 THEN job.row ELSE NoRow)
               /\ emb[job.id] = (IF e >= 2 THEN job.row.ver ELSE 0)
               /\ node[job.id] = 0
               /\ e < 3 => sig[job.row.domain][job.row.text] # job.id
               /\ job.out \in Ids => entry[job.out] = NoRow /\ emb[job.out] = 0 /\ node[job.out] = 0
               /\ job.p = 4 /\ Sound(job.out) =>
                    sig[OldEntry[job.out].domain][OldEntry[job.out].text] = NoId
               /\ \A d \in Domains, x \in Contents :
                     sig[d][x] = IF job.kind = "create" /\ <<d, x>> = Sig(job.row) /\ e >= 3 THEN job.id
                                 ELSE IF job.p = 4 /\ <<d, x>> = OldKey(job.out) THEN NoId
                                 ELSE OldSig[d][x]
    BY <1>1, <1>3, <1>8, <2>0, <2>5, CreateFailed DEF e
  <2>6. ASSUME job.kind = "create" PROVE DroppedTo(job, q)'
    <3>1. job.id \in Ids
      BY <1>1, <2>6, IdsApart DEF JobFits
    <3>2. e < 4 => ~(k = JobLen(job) - 1)
      BY <1>1, <1>3, <2>6, JobShape DEF e
    <3>3. e < 4 => node'[job.id] = 0
      BY <3>1, <3>2, <1>10, <2>5, <2>6
    <3>4. q = e
      BY <2>2, <2>6
    <3>5. entry'[job.id] = (IF e >= 1 THEN job.row ELSE NoRow)
      BY <1>10, <2>5, <2>6
    <3>6. emb'[job.id] = (IF e >= 2 THEN job.row.ver ELSE 0)
      BY <1>10, <2>5, <2>6
    <3>7. e < 3 => sig'[job.row.domain][job.row.text] # job.id
      BY <1>10, <2>5, <2>6
    <3> QED
      BY <3>3, <3>4, <3>5, <3>6, <3>7 DEF DroppedTo
  <2>7. ASSUME job.kind = "create" PROVE SigsBack(job, z, q)'
    <3>1. z = BackLen(job) /\ q = e /\ BackLen(job)' = BackLen(job) /\ z >= BackLen(job) - 1
      BY <1>11, <2>1, <2>2, <2>7
    <3>2. job.p = 4 /\ Sound(job.out)' =>
             sig'[OldEntry[job.out].domain][OldEntry[job.out].text] = NoId
      BY <1>10, <1>12, <2>5, <2>7
    <3>3. \A d \in Domains, x \in Contents :
              sig'[d][x] = IF job.kind = "create" /\ <<d, x>> = Sig(job.row) /\ e >= 3 THEN job.id
                           ELSE IF job.p = 4 /\ <<d, x>> = OldKey(job.out) THEN NoId
                           ELSE OldSig[d][x]
      BY <1>10, <2>5, <2>7
    <3> QED
      BY <1>11, <3>1, <3>2, <3>3 DEF SigsBack
  <2>8. ASSUME job.out \in Ids PROVE BackTo(job, z)'
    <3>0. job.kind = "create"
      BY <2>4, <2>8
    <3>1. z = BackLen(job) /\ BackLen(job)' = BackLen(job) /\ ~(z <= 1) /\ z # 0
      BY <1>11, <2>1, <2>2, <2>8, <3>0, JobShape, IdsApart
    <3>2. job.id # job.out
      BY <1>1, JobApart
    <3>3. entry'[job.out] = NoRow /\ emb'[job.out] = 0 /\ node'[job.out] = 0
      BY <1>10, <2>5, <2>8, <3>0, <3>2
    <3> QED
      BY <3>1, <3>3 DEF BackTo
  <2>9. ASSUME job.kind = "replace" PROVE UnreplacedTo(job, k + 1, n)' /\ sig' = OldSig'
    <3>1. /\ k \in 0..2 /\ job.p = 0 /\ job.id \in Ids
          /\ entry[job.id] = (IF k >= 1 THEN job.row ELSE OldEntry[job.id])
          /\ k < 2 => emb[job.id] = OldEmb[job.id]
          /\ node[job.id] = OldNode[job.id] /\ sig = OldSig
      BY <1>1, <1>3, <1>8, <2>9, ReplaceFailed
    <3>2. n = (IF k = 2 THEN 3 ELSE k)
      BY <2>3, <2>9
    <3>3. k < 2 => node'[job.id] = OldNode[job.id]
      BY <3>1, <1>3, <1>10
    <3>4. CASE k = 0
      BY <3>1, <3>2, <3>3, <3>4, <1>10, <1>11 DEF UnreplacedTo
    <3>5. CASE k = 1
      BY <3>1, <3>2, <3>3, <3>5, <1>10, <1>11 DEF UnreplacedTo
    <3>6. CASE k = 2
      BY <3>1, <3>2, <3>3, <3>6, <1>10, <1>11 DEF UnreplacedTo
    <3> QED
      BY <3>1, <3>4, <3>5, <3>6
  <2>10. \A c \in 1..n : todo'[c] = UndoCall(job, k + 1, n - c + 1)'
    BY <2>p, <1>11, <1>13
  <2>11. n <= UndoLen(job, k + 1)'
    BY <2>p, <1>11, <1>13
  <2>12. z = LeastOf(n, BackLen(job)')
    BY <2>p, <1>11
  <2>13. n \in 0..8 /\ z \in 0..8 /\ q \in 0..8
    <3>0. n = z + q
      <4>1. q = n - z
        BY <2>p
      <4> QED
        BY <4>1
    <3>1. CASE job.kind = "create"
      <4>1. z \in {0, 2, 4} /\ q \in {0, 1, 2, 4}
        BY <2>1, <2>2, <3>1
      <4> QED
        BY <3>0, <4>1
    <3>2. CASE job.kind = "replace"
      <4>1. n \in 0..3
        <5>1. k \in 0..2 /\ n = (IF k = 2 THEN 3 ELSE k)
          BY <2>3, <3>2
        <5> QED
          BY <5>1
      <4> QED
        BY <3>0, <4>1
    <3> QED
      BY <3>1, <3>2, <2>0, JobShape
  <2>14. UndoStage(job, k + 1, n, z, q)'
    BY <2>p, <2>6, <2>7, <2>8, <2>9, <2>10, <2>11, <2>12 DEF UndoStage, UndoStores
  <2> QED
    BY <2>0, <2>13, <2>14, <1>7, <1>8, <1>10, <1>11 DEF Undoing, UndoKept
<1> QED
  BY <1>14, <1>15

\* The next call of an undo.
Unreplaces(job, m, n) ==
    /\ job.kind = "replace" /\ job.id \in Ids /\ job.out = NoId
    /\ \/ todo[1] = Try("row", job.id, OldEntry[job.id]) /\ ((m = 2 /\ n = 1) \/ (m = 3 /\ n = 3))
       \/ todo[1] = Try("emb", job.id, OldEmb[job.id]) /\ m = 3 /\ n = 2
       \/ todo[1] = Try("node", job.id, OldEmb[job.id]) /\ m = 3 /\ n = 1

Drops(job, n, z, q) ==
    /\ job.kind = "create" /\ job.id \in EntryIds /\ q \in 1..4 /\ z = BackLen(job)
    /\ todo[1] = DropCall(job, q)
    /\ LeastOf(n - 1, BackLen(job)) = z /\ (n - 1) - z = q - 1

BringsBack(job, n, z, q) ==
    /\ job.kind = "create" /\ job.id \in EntryIds /\ job.out \in EntryIds
    /\ q = 0 /\ n = z /\ z \in 1..BackLen(job) /\ BackLen(job) \in {2, 4}
    /\ todo[1] = BackCall(job, z)
    /\ LeastOf(n - 1, BackLen(job)) = z - 1 /\ (n - 1) - (z - 1) = 0

LEMMA UndoNext ==
    ASSUME NEW job \in Jobs, JobFits(job), NEW m \in Nat, m <= JobLen(job), m > job.p,
           NEW n \in 0..8, NEW z \in 0..8, NEW q \in 0..8, UndoStage(job, m, n, z, q), n > 0
    PROVE  Unreplaces(job, m, n) \/ Drops(job, n, z, q) \/ BringsBack(job, n, z, q)
<1>1. /\ z = LeastOf(n, BackLen(job)) /\ q = n - z /\ n <= UndoLen(job, m)
      /\ todo[1] = UndoCall(job, m, n)
  <2>1. 1 \in 1..n /\ n - 1 + 1 = n
    OBVIOUS
  <2> QED
    BY <2>1 DEF UndoStage
<1>2. /\ job.p \in {0, 3, 4} /\ job.kind \in {"create", "replace"} /\ BackLen(job) \in {0, 2, 4}
      /\ job.kind = "create" => JobLen(job) = job.p + 4
      /\ job.kind = "replace" => JobLen(job) = job.p + 3 /\ job.p = 0 /\ job.out = NoId /\ job.id \in Ids
      /\ job.kind = "create" => job.id \in EntryIds /\ job.out \in EntryIds \cup {NoId}
      /\ ~(m <= job.p)
  BY JobShape DEF JobFits
<1>3. CASE job.kind = "replace"
  <2>1. BackLen(job) = 0 /\ UndoLen(job, m) = (IF m = 3 THEN 3 ELSE m - 1) /\ m \in 1..3
    BY <1>2, <1>3 DEF BackLen, UndoLen
  <2>2. (m = 2 /\ n = 1) \/ (m = 3 /\ n \in 1..3)
    BY <1>1, <2>1
  <2>3. todo[1] = UnreplaceCall(job, m, n)
    BY <1>1, <1>3 DEF UndoCall
  <2> QED
    BY <1>2, <1>3, <2>2, <2>3 DEF UnreplaceCall, Unreplaces
<1>4. CASE job.kind = "create"
  <2>1. UndoLen(job, m) = BackLen(job) + (IF m - job.p = 4 THEN 4 ELSE m - job.p - 1) /\ m - job.p \in 1..4
    BY <1>2, <1>4 DEF UndoLen
  <2>2. n <= BackLen(job) + 4
    <3>1. n <= UndoLen(job, m) /\ BackLen(job) \in Nat
      BY <1>1, <1>2
    <3>2. (IF m - job.p = 4 THEN 4 ELSE m - job.p - 1) \in 0..4
      BY <2>1
    <3>3. PICK e \in 0..4 : UndoLen(job, m) = BackLen(job) + e
      BY <2>1, <3>2
    <3> QED
      BY <3>1, <3>3
  <2>3. CASE n > BackLen(job)
    <3>1. z = BackLen(job) /\ q = n - BackLen(job) /\ q \in 1..4 /\ ~(n <= BackLen(job))
      BY <1>1, <1>2, <2>2, <2>3 DEF LeastOf
    <3>2. todo[1] = DropCall(job, q)
      BY <1>1, <1>4, <3>1 DEF UndoCall
    <3>3. LeastOf(n - 1, BackLen(job)) = z /\ (n - 1) - z = q - 1
      BY <1>2, <2>3, <3>1 DEF LeastOf
    <3> QED
      BY <1>2, <1>4, <3>1, <3>2, <3>3 DEF Drops
  <2>4. CASE ~(n > BackLen(job))
    <3>1. n <= BackLen(job) /\ z = n /\ q = 0
      BY <1>1, <1>2, <2>4 DEF LeastOf
    <3>2. todo[1] = BackCall(job, z)
      BY <1>1, <1>4, <3>1 DEF UndoCall
    <3>3. BackLen(job) \in {2, 4} /\ z \in 1..BackLen(job)
      BY <1>2, <3>1
    <3>4. job.out \in EntryIds
      BY <1>2, <1>4, <3>3 DEF BackLen
    <3>5. LeastOf(n - 1, BackLen(job)) = z - 1 /\ (n - 1) - (z - 1) = 0
      BY <3>1, <3>3 DEF LeastOf
    <3> QED
      BY <1>2, <1>4, <3>1, <3>2, <3>3, <3>4, <3>5 DEF BringsBack
  <2> QED
    BY <2>3, <2>4
<1> QED
  BY <1>2, <1>3, <1>4

\* A call of an undo is about the job's entries and disturbs no other's.
LEMMA UndoFrame ==
    ASSUME OldAtRest, NEW job \in Jobs, JobFits(job), OthersKept(job),
           StoresTyped(entry, emb, node, sig), Unused(entry, emb, node, sig, writes),
           before' = before, writes' = writes, torn' = torn, blurred' = blurred,
           NEW c, Apply(c), c.id \in Ids, c.id \in {job.id, job.out},
           c.store = "row" => c.val \in EntryRow /\ (c.id \in EntryIds /\ c.val.ver > 0 =>
                                   c.val.text \in Contents /\ c.val.domain \in Domains),
           c.store \in {"emb", "node"} => c.val \in Nat,
           c.store \in {"sig", "slot"} => /\ c.val.key \in Domains \X Contents
                                          /\ c.val.to \in EntryIds \cup {NoId},
           c.store = "sig" => job.kind = "create" /\ c.val.key = Sig(job.row) /\ c.val.to = NoId,
           c.store = "slot" => c.val.to = job.out
    PROVE  /\ OthersKept(job)' /\ StoresTyped(entry, emb, node, sig)'
           /\ Unused(entry, emb, node, sig, writes)'
<1>1. /\ \A j \in Ids : entry'[j] = IF c.store = "row" /\ c.id = j THEN c.val ELSE entry[j]
      /\ \A j \in Ids : emb'[j] = IF c.store = "emb" /\ c.id = j THEN c.val ELSE emb[j]
      /\ \A j \in Ids : node'[j] = IF c.store = "node" /\ c.id = j THEN c.val ELSE node[j]
      /\ c.store \notin {"sig", "slot"} => sig' = sig
  BY CallApplied
<1>2. /\ StoresTyped(entry', emb', node', sig')
      /\ c.store \in {"sig", "slot"} => \A d \in Domains, x \in Contents :
                sig'[d][x] = IF <<d, x>> = c.val.key /\ (c.store = "sig" \/ sig[d][x] = NoId)
                             THEN c.val.to ELSE sig[d][x]
  BY ApplyTyped
<1>3. StoresTyped(entry, emb, node, sig)'
  BY <1>2 DEF StoresTyped
<1>4. /\ NoId \notin Ids /\ EntryIds \subseteq Ids /\ writes \in Nat /\ EntryIds \subseteq Nat
      /\ job.id \in EntryIds => job.id <= writes
      /\ job.out \in EntryIds => job.out <= writes
  <2>1. NoId \notin Ids /\ EntryIds \subseteq Ids /\ writes \in Nat /\ EntryIds \subseteq Nat
    BY IdsApart DEF OldAtRest
  <2>2. job.id \in EntryIds => job.id <= writes
    BY JobApart
  <2>3. job.out \in EntryIds => job.out < writes
    BY JobApart
  <2>4. job.out \in EntryIds => job.out <= writes
    BY <2>1, <2>3
  <2> QED
    BY <2>1, <2>2, <2>4
<1>5. ASSUME NEW d \in Domains, NEW x \in Contents
      PROVE  sig'[d][x] = sig[d][x] \/ sig'[d][x] = NoId \/ sig'[d][x] = job.out
  BY <1>1, <1>2, <1>5
<1>6. Unused(entry, emb, node, sig, writes)'
  <2> SUFFICES ASSUME NEW j \in EntryIds, j > writes
               PROVE  /\ entry'[j] = NoRow /\ emb'[j] = 0 /\ node'[j] = 0
                      /\ \A d \in Domains, x \in Contents : sig'[d][x] # j
    BY DEF Unused
  <2>1. j # job.id /\ j # job.out /\ j \in Ids /\ j # NoId
    BY <1>4
  <2>2. /\ entry[j] = NoRow /\ emb[j] = 0 /\ node[j] = 0
        /\ \A d \in Domains, x \in Contents : sig[d][x] # j
    BY DEF Unused
  <2> QED
    BY <2>1, <2>2, <1>1, <1>5
<1>7. OthersKept(job)'
  <2>0. OldEntry' = OldEntry /\ OldEmb' = OldEmb /\ OldNode' = OldNode /\ OldSig' = OldSig
    BY DEF OldEntry, OldEmb, OldNode, OldSig
  <2>1. ASSUME NEW j \in Ids \ {job.id, job.out}
        PROVE  entry'[j] = OldEntry[j] /\ emb'[j] = OldEmb[j] /\ node'[j] = OldNode[j]
    BY <1>1 DEF OthersKept
  <2>2. ASSUME NEW j \in Ids \ {job.id, job.out}, Sound(j), j \in EntryIds, OldEntry[j].ver > 0
        PROVE  sig'[OldEntry[j].domain][OldEntry[j].text] = j
    <3>1. sig[OldEntry[j].domain][OldEntry[j].text] = j
      BY <2>2 DEF OthersKept, Signed
    <3>2. /\ OldEntry[j].domain \in Domains /\ OldEntry[j].text \in Contents
          /\ job.kind = "create" => OldKey(j) # Sig(job.row)
      BY <2>2, KeysApart DEF OldPresent
    <3>3. OldKey(j) = <<OldEntry[j].domain, OldEntry[j].text>>
      BY DEF OldKey, Sig
    <3>4. j # NoId
      BY <1>4
    <3> QED
      BY <3>1, <3>2, <3>3, <3>4, <1>1, <1>2
  <2>3. \A j : Sound(j)' = Sound(j)
    BY DEF Sound
  <2> QED
    BY <2>0, <2>1, <2>2, <2>3 DEF OthersKept, Signed
<1> QED
  BY <1>3, <1>6, <1>7

\* A call of the undo that takes the new entry away again.
LEMMA UndoDrop ==
    ASSUME OldAtRest, NEW job \in Jobs, JobFits(job), UndoKept(job), NEW m, NEW n, NEW n2,
           NEW z, z = BackLen(job), NEW q \in 1..4, UndoStores(job, m, n, z, q), job.kind = "create",
           Apply(DropCall(job, q)),
           before' = before, writes' = writes, torn' = torn, blurred' = blurred
    PROVE  UndoKept(job)' /\ UndoStores(job, m, n2, z, q - 1)'
<1> DEFINE c == DropCall(job, q)
<1>0. /\ job.id \in EntryIds /\ job.id \in Ids /\ job.id # job.out /\ NoId \notin Ids /\ NoId \notin EntryIds
      /\ job.row.domain \in Domains /\ job.row.text \in Contents
      /\ Sig(job.row) = <<job.row.domain, job.row.text>> /\ Sig(job.row) \in Domains \X Contents
      /\ job.row.ver \in Nat /\ job.row.ver > 0 /\ NoRow \in EntryRow /\ NoRow.ver = 0
      /\ EntryIds \subseteq Ids /\ BackLen(job) \in {0, 2, 4} /\ job.p \in {0, 3, 4}
      /\ job.out \in Ids => BackLen(job) # 0
  BY IdsApart, JobShape, JobApart, NoRowTyped DEF JobFits, OldAtRest
<1>1. StoresTyped(entry, emb, node, sig) /\ NoneOutlives(entry, emb, sig)
      /\ Unused(entry, emb, node, sig, writes) /\ OthersKept(job)
  BY DEF UndoKept
<1>2. \/ q = 1 /\ c.store = "row" /\ c.val = NoRow
      \/ q = 2 /\ c.store = "emb" /\ c.val = 0
      \/ q = 3 /\ c.store = "sig" /\ c.val.key = Sig(job.row) /\ c.val.to = NoId
      \/ q = 4 /\ c.store = "node" /\ c.val = 0
  BY DEF DropCall, Try, Must
<1>3. c.id = job.id
  BY DEF DropCall, Try, Must
<1>4. Apply(c)
  OBVIOUS
<1> HIDE DEF c
<1>5. /\ \A j \in Ids : entry'[j] = IF c.store = "row" /\ c.id = j THEN c.val ELSE entry[j]
      /\ \A j \in Ids : emb'[j] = IF c.store = "emb" /\ c.id = j THEN c.val ELSE emb[j]
      /\ \A j \in Ids : node'[j] = IF c.store = "node" /\ c.id = j THEN c.val ELSE node[j]
      /\ c.store \notin {"sig", "slot"} => sig' = sig
  BY <1>1, <1>4, CallApplied
<1>6. /\ c.store = "row" => c.val \in EntryRow /\ (c.id \in EntryIds /\ c.val.ver > 0 =>
                                   c.val.text \in Contents /\ c.val.domain \in Domains)
      /\ c.store \in {"emb", "node"} => c.val \in Nat
      /\ c.store \in {"sig", "slot"} => /\ c.val.key \in Domains \X Contents
                                        /\ c.val.to \in EntryIds \cup {NoId}
      /\ c.store = "sig" => job.kind = "create" /\ c.val.key = Sig(job.row) /\ c.val.to = NoId
      /\ c.store = "slot" => c.val.to = job.out
  BY <1>0, <1>2
<1>7. q = 3 => \A d \in Domains, x \in Contents :
                sig'[d][x] = IF <<d, x>> = Sig(job.row) THEN NoId ELSE sig[d][x]
  BY <1>0, <1>1, <1>2, <1>3, <1>4, <1>6, ApplyTyped
<1>8. q # 3 => sig' = sig
  BY <1>2, <1>5
<1>9. OthersKept(job)' /\ StoresTyped(entry, emb, node, sig)' /\ Unused(entry, emb, node, sig, writes)'
  BY <1>0, <1>1, <1>3, <1>4, <1>6, UndoFrame
<1>10. /\ entry'[job.id] = IF q = 1 THEN NoRow ELSE entry[job.id]
       /\ emb'[job.id] = IF q = 2 THEN 0 ELSE emb[job.id]
       /\ node'[job.id] = IF q = 4 THEN 0 ELSE node[job.id]
       /\ \A j \in Ids : j # job.id => entry'[j] = entry[j] /\ emb'[j] = emb[j] /\ node'[j] = node[j]
  BY <1>0, <1>2, <1>3, <1>5
<1>11. job.id \notin blurred => DroppedTo(job, q)
  BY DEF UndoStores
<1>12. NoneOutlives(entry, emb, sig)'
  <2>1. ASSUME NEW j \in EntryIds \ blurred, emb'[j] > 0 PROVE entry'[j].ver > 0
    <3>1. CASE j = job.id
      <4>1. DroppedTo(job, q)
        BY <3>1, <1>11
      <4>2. q # 1
        BY <4>1, <3>1, <2>1, <1>10 DEF DroppedTo
      <4>3. entry'[j] = job.row
        BY <4>1, <4>2, <3>1, <1>10 DEF DroppedTo
      <4> QED
        BY <4>3, <1>0
    <3>2. CASE j # job.id
      BY <3>2, <2>1, <1>0, <1>1, <1>10 DEF NoneOutlives
    <3> QED
      BY <3>1, <3>2
  <2>2. ASSUME NEW d \in Domains, NEW x \in Contents, NEW j, j = sig'[d][x], j # NoId, j \notin blurred
        PROVE  entry'[j].ver > 0 /\ Sig(entry'[j]) = <<d, x>>
    <3>1. j = sig[d][x]
      BY <2>2, <1>7, <1>8
    <3>2. j \in EntryIds /\ entry[j].ver > 0 /\ Sig(entry[j]) = <<d, x>>
      BY <2>2, <3>1, <1>1 DEF NoneOutlives, StoresTyped
    <3>3. CASE j = job.id
      <4>1. DroppedTo(job, q)
        BY <3>3, <2>2, <1>11
      <4>2. ASSUME q = 1 PROVE FALSE
        <5>1. entry[j] = job.row /\ sig[job.row.domain][job.row.text] # job.id
          BY <4>1, <4>2, <3>3 DEF DroppedTo
        <5>2. d = job.row.domain /\ x = job.row.text
          BY <5>1, <3>2, <1>0
        <5> QED
          BY <5>1, <5>2, <3>1, <3>3
      <4> QED
        BY <4>2, <3>2, <3>3, <1>10
    <3>4. CASE j # job.id
      BY <3>2, <3>4, <1>0, <1>10
    <3> QED
      BY <3>3, <3>4
  <2> QED
    BY <2>1, <2>2 DEF NoneOutlives
<1>13. ASSUME job.id \notin blurred PROVE DroppedTo(job, q - 1)'
  <2>1. DroppedTo(job, q)
    BY <1>11, <1>13
  <2>2. entry'[job.id] = (IF q - 1 >= 1 THEN job.row ELSE NoRow)
    BY <2>1, <1>10 DEF DroppedTo
  <2>3. emb'[job.id] = (IF q - 1 >= 2 THEN job.row.ver ELSE 0)
    BY <2>1, <1>10 DEF DroppedTo
  <2>4. node'[job.id] = 0
    BY <2>1, <1>10 DEF DroppedTo
  <2>5. ASSUME q - 1 < 3 PROVE sig'[job.row.domain][job.row.text] # job.id
    <3>1. CASE q = 3
      BY <3>1, <1>0, <1>7
    <3>2. CASE q # 3
      <4>1. q < 3
        BY <2>5, <3>2
      <4> QED
        BY <4>1, <3>2, <2>1, <1>8 DEF DroppedTo
    <3> QED
      BY <3>1, <3>2
  <2> QED
    BY <2>2, <2>3, <2>4, <2>5 DEF DroppedTo
<1>14. OldEntry' = OldEntry /\ OldEmb' = OldEmb /\ OldNode' = OldNode /\ OldSig' = OldSig
       /\ BackLen(job)' = BackLen(job) /\ \A j : OldKey(j)' = OldKey(j)
  BY Steady
<1>15. SigsBack(job, z, q - 1)'
  <2> DEFINE slot == job.p = 4 /\ z >= BackLen(job) - 1
  <2>0. slot <=> job.p = 4
    BY <1>0
  <2>1. job.p = 4 /\ Sound(job.out) =>
             sig[OldEntry[job.out].domain][OldEntry[job.out].text] = (IF slot THEN NoId ELSE job.out)
    BY DEF UndoStores, SigsBack
  <2>2. torn \cup blurred = {} =>
             \A d \in Domains, x \in Contents :
                 sig[d][x] = IF job.kind = "create" /\ <<d, x>> = Sig(job.row) /\ q >= 3 THEN job.id
                             ELSE IF slot /\ <<d, x>> = OldKey(job.out) THEN NoId
                             ELSE OldSig[d][x]
    BY DEF UndoStores, SigsBack
  <2>3. ASSUME job.p = 4, Sound(job.out)
        PROVE  sig'[OldEntry[job.out].domain][OldEntry[job.out].text] = NoId
    <3>1. /\ job.out \in EntryIds /\ OldPresent(job.out)
      BY <2>3, <1>0 DEF JobFits
    <3>2. /\ OldEntry[job.out].domain \in Domains /\ OldEntry[job.out].text \in Contents
          /\ OldKey(job.out) # Sig(job.row)
      BY <2>3, <3>1, KeysApart
    <3>3. OldKey(job.out) = <<OldEntry[job.out].domain, OldEntry[job.out].text>>
      BY DEF OldKey, Sig
    <3> QED
      BY <3>2, <3>3, <2>0, <2>1, <2>3, <1>7, <1>8
  <2>4. ASSUME torn \cup blurred = {}, NEW d \in Domains, NEW x \in Contents
        PROVE  sig'[d][x] = IF job.kind = "create" /\ <<d, x>> = Sig(job.row) /\ q - 1 >= 3 THEN job.id
                            ELSE IF slot /\ <<d, x>> = OldKey(job.out) THEN NoId
                            ELSE OldSig[d][x]
    <3>1. sig[d][x] = IF job.kind = "create" /\ <<d, x>> = Sig(job.row) /\ q >= 3 THEN job.id
                      ELSE IF slot /\ <<d, x>> = OldKey(job.out) THEN NoId
                      ELSE OldSig[d][x]
      BY <2>2, <2>4
    <3>2. CASE q = 3
      <4>1. sig'[d][x] = IF <<d, x>> = Sig(job.row) THEN NoId ELSE sig[d][x]
        BY <3>2, <1>7
      <4>2. ~(q - 1 >= 3) /\ q >= 3
        BY <3>2
      <4>3. <<d, x>> = Sig(job.row) => OldSig[d][x] = NoId
        <5>1. SUFFICES ASSUME <<d, x>> = Sig(job.row), OldSig[d][x] # NoId PROVE FALSE
          OBVIOUS
        <5>2. OldSig[d][x] \in EntryIds
          BY <5>1, <2>4 DEF OldAtRest, AtRest, StoresTyped
        <5>3. OldEntry[OldSig[d][x]].ver > 0
          BY <5>1, <2>4 DEF OldAtRest, AtRest, NoneOutlives
        <5>4. d = job.row.domain /\ x = job.row.text
          BY <5>1, <1>0
        <5> QED
          BY <5>2, <5>3, <5>4, <1>0 DEF JobFits, OldPresent
      <4> QED
        BY <3>1, <4>1, <4>2, <4>3
    <3>3. CASE q # 3
      <4>1. q >= 3 <=> q - 1 >= 3
        BY <3>3
      <4> QED
        BY <3>1, <3>3, <4>1, <1>8
    <3> QED
      BY <3>2, <3>3
  <2>5. Sound(job.out)' = Sound(job.out)
    BY DEF Sound
  <2> HIDE DEF slot
  <2>6. slot <=> (job.p = 4 /\ z >= BackLen(job)' - 1)
    BY <1>14 DEF slot
  <2>7. job.p = 4 /\ Sound(job.out)' =>
             sig'[OldEntry'[job.out].domain][OldEntry'[job.out].text] = (IF slot THEN NoId ELSE job.out)
    BY <2>0, <2>3, <2>5, <1>14
  <2>8. torn' \cup blurred' = {} =>
             \A d \in Domains, x \in Contents :
                 sig'[d][x] = IF job.kind = "create" /\ <<d, x>> = Sig(job.row) /\ q - 1 >= 3 THEN job.id
                              ELSE IF slot /\ <<d, x>> = OldKey(job.out)' THEN NoId
                              ELSE OldSig'[d][x]
    BY <2>4, <1>14
  <2> QED
    BY <2>6, <2>7, <2>8 DEF SigsBack
<1>16. ASSUME job.out \in Ids \ blurred PROVE BackTo(job, z)'
  <2>1. BackTo(job, z)
    BY <1>16 DEF UndoStores
  <2> QED
    BY <2>1, <1>0, <1>10, <1>14, <1>16 DEF BackTo
<1> QED
  BY <1>9, <1>12, <1>13, <1>15, <1>16 DEF UndoKept, UndoStores

\* A call of the undo that brings the evicted entry back.
LEMMA UndoBack ==
    ASSUME OldAtRest, NEW job \in Jobs, JobFits(job), UndoKept(job), NEW m, NEW n, NEW n2,
           NEW z \in 1..BackLen(job), BackLen(job) \in {2, 4}, UndoStores(job, m, n, z, 0),
           job.kind = "create", job.out \in EntryIds, Apply(BackCall(job, z)),
           before' = before, writes' = writes, torn' = torn, blurred' = blurred
    PROVE  UndoKept(job)' /\ UndoStores(job, m, n2, z - 1, 0)'
<1> DEFINE c == BackCall(job, z)
           L == BackLen(job)
           dd == OldEntry[job.out].domain
           xx == OldEntry[job.out].text
<1>0. /\ job.id \in EntryIds /\ job.id \in Ids /\ job.id # job.out /\ NoId \notin Ids /\ job.out \in Ids
      /\ job.out # NoId /\ EntryIds \subseteq Ids /\ job.p \in {3, 4} /\ NoRow.ver = 0
      /\ job.row.domain \in Domains /\ job.row.text \in Contents
  BY IdsApart, JobShape, JobApart, NoRowTyped DEF JobFits
<1>1. StoresTyped(entry, emb, node, sig) /\ NoneOutlives(entry, emb, sig)
      /\ Unused(entry, emb, node, sig, writes) /\ OthersKept(job)
  BY DEF UndoKept
<1>a. /\ OldEntry[job.out] \in EntryRow /\ OldEntry[job.out].ver > 0 /\ OldEmb[job.out] \in Nat
      /\ dd \in Domains /\ xx \in Contents /\ OldKey(job.out) = <<dd, xx>>
      /\ OldKey(job.out) \in Domains \X Contents
  <2>1. OldEntry[job.out] \in EntryRow /\ OldEntry[job.out].ver > 0 /\ OldEmb[job.out] \in Nat
    BY <1>0 DEF JobFits, OldPresent, OldAtRest, AtRest, StoresTyped
  <2>2. dd \in Domains /\ xx \in Contents
    BY <2>1, <1>0 DEF OldAtRest, AtRest, StoresTyped
  <2> QED
    BY <2>1, <2>2 DEF OldKey, Sig
<1>b. L = 2 <=> OldEmb[job.out] = 0
  BY <1>0 DEF BackLen
<1>2. \/ z = L /\ c.store = "row" /\ c.val = OldEntry[job.out]
      \/ z = L - 1 /\ c.store = "slot" /\ c.val.key = OldKey(job.out) /\ c.val.to = job.out
      \/ L = 4 /\ z = 2 /\ c.store = "emb" /\ c.val = OldEmb[job.out]
      \/ L = 4 /\ z = 1 /\ c.store = "node" /\ c.val = OldEmb[job.out]
  <2>1. CASE z = L
    BY <2>1 DEF BackCall, Try, Must
  <2>2. CASE z = L - 1
    <3>1. c = Try("slot", job.out, [key |-> OldKey(job.out), to |-> job.out])
      BY <2>2 DEF BackCall
    <3> QED
      BY <2>2, <3>1 DEF Try, Must
  <2>3. CASE z # L /\ z # L - 1
    <3>1. L = 4 /\ z \in {1, 2}
      BY <2>3
    <3>2. c = IF z = 2 THEN Must("emb", job.out, OldEmb[job.out]) ELSE Try("node", job.out, OldEmb[job.out])
      BY <2>3 DEF BackCall
    <3> QED
      BY <3>1, <3>2 DEF Try, Must
  <2> QED
    BY <2>1, <2>2, <2>3
<1>3. c.id = job.out
  BY DEF BackCall, Try, Must
<1>4. Apply(c)
  OBVIOUS
<1>14. OldEntry' = OldEntry /\ OldEmb' = OldEmb /\ OldNode' = OldNode /\ OldSig' = OldSig
       /\ BackLen(job)' = BackLen(job) /\ \A j : OldKey(j)' = OldKey(j)
  BY Steady
<1>15. L \in {2, 4} /\ z \in 1..L
  OBVIOUS
<1>16. /\ job.p = 4 /\ Sound(job.out) => sig[dd][xx] = (IF z >= L - 1 THEN NoId ELSE job.out)
       /\ torn \cup blurred = {} =>
             \A d \in Domains, x \in Contents :
                 sig[d][x] = IF job.p = 4 /\ z >= L - 1 /\ <<d, x>> = OldKey(job.out) THEN NoId
                             ELSE OldSig[d][x]
  BY DEF UndoStores, SigsBack
<1>17. job.out \notin blurred =>
          /\ entry[job.out] = (IF z = L THEN NoRow ELSE OldEntry[job.out])
          /\ emb[job.out] = (IF z <= 1 THEN OldEmb[job.out] ELSE 0)
          /\ node[job.out] = 0
  BY <1>0, <1>15 DEF UndoStores, BackTo
<1>18. job.p = 4 => OldSig[dd][xx] = job.out
  BY <1>0 DEF JobFits
<1>19. Sound(job.out) => job.p = 4 /\ L = 4
  BY <1>0, KeysApart DEF JobFits
<1> HIDE DEF c, L, dd, xx
<1>5. /\ \A j \in Ids : entry'[j] = IF c.store = "row" /\ c.id = j THEN c.val ELSE entry[j]
      /\ \A j \in Ids : emb'[j] = IF c.store = "emb" /\ c.id = j THEN c.val ELSE emb[j]
      /\ \A j \in Ids : node'[j] = IF c.store = "node" /\ c.id = j THEN c.val ELSE node[j]
      /\ c.store \notin {"sig", "slot"} => sig' = sig
  BY <1>1, <1>4, CallApplied
<1>6. /\ c.store = "row" => c.val \in EntryRow /\ (c.id \in EntryIds /\ c.val.ver > 0 =>
                                   c.val.text \in Contents /\ c.val.domain \in Domains)
      /\ c.store \in {"emb", "node"} => c.val \in Nat
      /\ c.store \in {"sig", "slot"} => /\ c.val.key \in Domains \X Contents
                                        /\ c.val.to \in EntryIds \cup {NoId}
      /\ c.store # "sig"
      /\ c.store = "slot" => c.val.to = job.out
  BY <1>0, <1>a, <1>2 DEF dd, xx
<1>7. z = L - 1 => \A d \in Domains, x \in Contents :
                sig'[d][x] = IF <<d, x>> = <<dd, xx>> /\ sig[d][x] = NoId THEN job.out ELSE sig[d][x]
  <2>1. SUFFICES ASSUME z = L - 1 PROVE
           \A d \in Domains, x \in Contents :
                sig'[d][x] = IF <<d, x>> = <<dd, xx>> /\ sig[d][x] = NoId THEN job.out ELSE sig[d][x]
    OBVIOUS
  <2>2. c.store = "slot" /\ c.val.key = <<dd, xx>> /\ c.val.to = job.out
    BY <2>1, <1>2, <1>15, <1>a
  <2> QED
    BY <2>2, <1>0, <1>1, <1>3, <1>4, <1>6, ApplyTyped
<1>8. z # L - 1 => sig' = sig
  BY <1>2, <1>5, <1>15
<1>9. OthersKept(job)' /\ StoresTyped(entry, emb, node, sig)' /\ Unused(entry, emb, node, sig, writes)'
  BY <1>0, <1>1, <1>3, <1>4, <1>6, UndoFrame
<1>10. /\ entry'[job.out] = IF z = L THEN OldEntry[job.out] ELSE entry[job.out]
       /\ emb'[job.out] = IF L = 4 /\ z = 2 THEN OldEmb[job.out] ELSE emb[job.out]
       /\ node'[job.out] = IF L = 4 /\ z = 1 THEN OldEmb[job.out] ELSE node[job.out]
       /\ \A j \in Ids : j # job.out => entry'[j] = entry[j] /\ emb'[j] = emb[j] /\ node'[j] = node[j]
  BY <1>0, <1>2, <1>3, <1>5, <1>15
<1>11. job.out \notin blurred => entry'[job.out] = OldEntry[job.out]
  BY <1>10, <1>17
<1>12. NoneOutlives(entry, emb, sig)'
  <2>1. ASSUME NEW j \in EntryIds \ blurred, emb'[j] > 0 PROVE entry'[j].ver > 0
    <3>1. CASE j = job.out
      BY <3>1, <1>11, <1>a
    <3>2. CASE j # job.out
      BY <3>2, <2>1, <1>0, <1>1, <1>10 DEF NoneOutlives
    <3> QED
      BY <3>1, <3>2
  <2>2. ASSUME NEW d \in Domains, NEW x \in Contents, NEW j, j = sig'[d][x], j # NoId, j \notin blurred
        PROVE  entry'[j].ver > 0 /\ Sig(entry'[j]) = <<d, x>>
    <3>1. CASE j = sig[d][x]
      <4>1. j \in EntryIds /\ entry[j].ver > 0 /\ Sig(entry[j]) = <<d, x>>
        BY <2>2, <3>1, <1>1 DEF NoneOutlives, StoresTyped
      <4>2. entry'[j] = entry[j]
        <5>1. CASE j = job.out
          <6>1. z # L
            BY <4>1, <5>1, <2>2, <1>0, <1>17
          <6> QED
            BY <6>1, <5>1, <1>10
        <5>2. CASE j # job.out
          BY <4>1, <5>2, <1>0, <1>10
        <5> QED
          BY <5>1, <5>2
      <4> QED
        BY <4>1, <4>2
    <3>2. CASE j # sig[d][x]
      <4>1. j = job.out /\ <<d, x>> = <<dd, xx>>
        BY <3>2, <2>2, <1>7, <1>8
      <4>2. entry'[j] = OldEntry[job.out]
        BY <4>1, <2>2, <1>11
      <4> QED
        BY <4>1, <4>2, <1>a DEF OldKey
    <3> QED
      BY <3>1, <3>2
  <2> QED
    BY <2>1, <2>2 DEF NoneOutlives
<1>13. ASSUME job.id \notin blurred PROVE DroppedTo(job, 0)'
  <2>1. DroppedTo(job, 0)
    BY <1>13 DEF UndoStores
  <2>2. entry'[job.id] = NoRow /\ emb'[job.id] = 0 /\ node'[job.id] = 0
    BY <2>1, <1>0, <1>10 DEF DroppedTo
  <2>3. sig[job.row.domain][job.row.text] # job.id
    BY <2>1 DEF DroppedTo
  <2>4. sig'[job.row.domain][job.row.text] # job.id
    BY <2>3, <1>0, <1>7, <1>8
  <2> QED
    BY <2>2, <2>4 DEF DroppedTo
<1>20. SigsBack(job, z - 1, 0)'
  <2>0. Sound(job.out)' = Sound(job.out)
    BY DEF Sound
  <2>1. ASSUME job.p = 4, Sound(job.out)
        PROVE  sig'[dd][xx] = (IF z - 1 >= L - 1 THEN NoId ELSE job.out)
    <3>1. sig[dd][xx] = (IF z >= L - 1 THEN NoId ELSE job.out)
      BY <2>1, <1>16
    <3>2. CASE z = L
      BY <3>1, <3>2, <1>8, <1>15
    <3>3. CASE z = L - 1
      BY <3>1, <3>3, <1>7, <1>15, <1>a
    <3>4. CASE z < L - 1
      BY <3>1, <3>4, <1>8, <1>15
    <3> QED
      BY <3>2, <3>3, <3>4, <1>15
  <2>2. ASSUME torn \cup blurred = {}, NEW d \in Domains, NEW x \in Contents
        PROVE  sig'[d][x] = IF job.p = 4 /\ z - 1 >= L - 1 /\ <<d, x>> = OldKey(job.out) THEN NoId
                            ELSE OldSig[d][x]
    <3>0. job.p = 4 /\ L = 4
      BY <2>2, <1>19 DEF Sound
    <3>1. sig[d][x] = IF job.p = 4 /\ z >= L - 1 /\ <<d, x>> = OldKey(job.out) THEN NoId
                      ELSE OldSig[d][x]
      BY <2>2, <1>16
    <3>2. CASE z = L
      BY <3>1, <3>2, <1>8, <1>15
    <3>3. CASE z = L - 1
      <4>1. z >= L - 1 /\ ~(z - 1 >= L - 1)
        BY <3>3, <1>15
      <4>2. <<d, x>> = <<dd, xx>> => OldSig[d][x] = job.out
        BY <3>0, <1>18
      <4> QED
        BY <3>0, <3>1, <3>3, <4>1, <4>2, <1>7, <1>a
    <3>4. CASE z < L - 1
      <4>1. ~(z >= L - 1) /\ ~(z - 1 >= L - 1) /\ z # L - 1
        BY <3>4, <1>15
      <4> QED
        BY <3>1, <4>1, <1>8
    <3> QED
      BY <3>2, <3>3, <3>4, <1>15
  <2>3. L = BackLen(job)' /\ dd = OldEntry'[job.out].domain /\ xx = OldEntry'[job.out].text
    BY <1>14 DEF L, dd, xx
  <2>4. job.p = 4 /\ Sound(job.out)' =>
            sig'[OldEntry'[job.out].domain][OldEntry'[job.out].text]
              = (IF job.p = 4 /\ z - 1 >= BackLen(job)' - 1 THEN NoId ELSE job.out)
    BY <2>0, <2>1, <2>3
  <2>5. torn' \cup blurred' = {} =>
             \A d \in Domains, x \in Contents :
                 sig'[d][x] = IF job.kind = "create" /\ <<d, x>> = Sig(job.row) /\ 0 >= 3 THEN job.id
                              ELSE IF (job.p = 4 /\ z - 1 >= BackLen(job)' - 1) /\ <<d, x>> = OldKey(job.out)' THEN NoId
                              ELSE OldSig'[d][x]
    BY <2>2, <2>3, <1>14
  <2> QED
    BY <2>4, <2>5 DEF SigsBack
<1>21. ASSUME job.out \in Ids \ blurred PROVE BackTo(job, z - 1)'
  <2>1. /\ entry[job.out] = (IF z = L THEN NoRow ELSE OldEntry[job.out])
        /\ emb[job.out] = (IF z <= 1 THEN OldEmb[job.out] ELSE 0) /\ node[job.out] = 0
    BY <1>17, <1>21
  <2>2. entry'[job.out] = (IF z - 1 = L THEN NoRow ELSE OldEntry[job.out])
    <3>1. z - 1 # L
      BY <1>15
    <3> QED
      BY <3>1, <1>11, <1>21
  <2>3. emb'[job.out] = (IF z - 1 <= 1 THEN OldEmb[job.out] ELSE 0)
    <3>1. CASE L = 2
      BY <3>1, <2>1, <1>10, <1>15, <1>b
    <3>2. CASE L = 4
      BY <3>2, <2>1, <1>10, <1>15
    <3> QED
      BY <3>1, <3>2, <1>15
  <2>4. node'[job.out] = (IF z - 1 = 0 THEN OldEmb[job.out] ELSE 0)
    <3>1. CASE L = 2
      BY <3>1, <2>1, <1>10, <1>15, <1>b
    <3>2. CASE L = 4
      BY <3>2, <2>1, <1>10, <1>15
    <3> QED
      BY <3>1, <3>2, <1>15
  <2>5. L = BackLen(job)'
    BY <1>14 DEF L
  <2> QED
    BY <2>2, <2>3, <2>4, <2>5, <1>14 DEF BackTo
<1> QED
  BY <1>9, <1>12, <1>13, <1>20, <1>21 DEF UndoKept, UndoStores

\* A call of the undo that puts the replaced entry back.
LEMMA UndoReplace ==
    ASSUME OldAtRest, NEW job \in Jobs, JobFits(job), UndoKept(job),
           NEW m \in Nat, NEW n \in Nat, NEW z, NEW q, NEW z2, NEW q2, UndoStores(job, m, n, z, q),
           job.kind = "replace", NEW c, Apply(c), before' = before, writes' = writes,
           torn' = torn, blurred' = blurred,
           \/ c = Try("row", job.id, OldEntry[job.id]) /\ ((m = 2 /\ n = 1) \/ (m = 3 /\ n = 3))
           \/ c = Try("emb", job.id, OldEmb[job.id]) /\ m = 3 /\ n = 2
           \/ c = Try("node", job.id, OldEmb[job.id]) /\ m = 3 /\ n = 1
    PROVE  UndoKept(job)' /\ UndoStores(job, m, n - 1, z2, q2)'
<1>0. /\ job.id \in Ids /\ job.id # job.out /\ NoId \notin Ids /\ job.out = NoId /\ EntryIds \subseteq Ids
      /\ job.id \in EntryIds => OldEntry[job.id].ver > 0
  BY IdsApart, JobApart DEF JobFits, OldPresent
<1>1. StoresTyped(entry, emb, node, sig) /\ NoneOutlives(entry, emb, sig)
      /\ Unused(entry, emb, node, sig, writes) /\ OthersKept(job)
  BY DEF UndoKept
<1>a. /\ OldEntry[job.id] \in EntryRow /\ OldEmb[job.id] \in Nat
      /\ job.id \in EntryIds /\ OldEntry[job.id].ver > 0 =>
            OldEntry[job.id].text \in Contents /\ OldEntry[job.id].domain \in Domains
  BY <1>0 DEF OldAtRest, AtRest, StoresTyped
<1>2. \/ c.store = "row" /\ c.val = OldEntry[job.id] /\ ((m = 2 /\ n = 1) \/ (m = 3 /\ n = 3))
      \/ c.store = "emb" /\ c.val = OldEmb[job.id] /\ m = 3 /\ n = 2
      \/ c.store = "node" /\ c.val = OldEmb[job.id] /\ m = 3 /\ n = 1
  BY DEF Try, Must
<1>3. c.id = job.id
  BY DEF Try, Must
<1>5. /\ \A j \in Ids : entry'[j] = IF c.store = "row" /\ c.id = j THEN c.val ELSE entry[j]
      /\ \A j \in Ids : emb'[j] = IF c.store = "emb" /\ c.id = j THEN c.val ELSE emb[j]
      /\ \A j \in Ids : node'[j] = IF c.store = "node" /\ c.id = j THEN c.val ELSE node[j]
      /\ c.store \notin {"sig", "slot"} => sig' = sig
  BY <1>1, CallApplied
<1>6. /\ c.store = "row" => c.val \in EntryRow /\ (c.id \in EntryIds /\ c.val.ver > 0 =>
                                   c.val.text \in Contents /\ c.val.domain \in Domains)
      /\ c.store \in {"emb", "node"} => c.val \in Nat
      /\ c.store \notin {"sig", "slot"}
  BY <1>0, <1>a, <1>2, <1>3
<1>7. sig' = sig /\ sig = OldSig
  BY <1>5, <1>6 DEF UndoStores
<1>9. OthersKept(job)' /\ StoresTyped(entry, emb, node, sig)' /\ Unused(entry, emb, node, sig, writes)'
  BY <1>0, <1>1, <1>3, <1>6, UndoFrame
<1>10. /\ entry'[job.id] = IF c.store = "row" THEN OldEntry[job.id] ELSE entry[job.id]
       /\ emb'[job.id] = IF c.store = "emb" THEN OldEmb[job.id] ELSE emb[job.id]
       /\ node'[job.id] = IF c.store = "node" THEN OldEmb[job.id] ELSE node[job.id]
       /\ \A j \in Ids : j # job.id => entry'[j] = entry[j] /\ emb'[j] = emb[j] /\ node'[j] = node[j]
  BY <1>0, <1>2, <1>3, <1>5
<1>11. job.id \notin blurred => UnreplacedTo(job, m, n)
  BY DEF UndoStores
<1>12. job.id \notin blurred => entry'[job.id] = OldEntry[job.id]
  <2>1. SUFFICES ASSUME job.id \notin blurred, c.store # "row" PROVE entry[job.id] = OldEntry[job.id]
    BY <1>10
  <2>2. m = 3 /\ n <= 2
    BY <2>1, <1>2
  <2> QED
    BY <2>1, <2>2, <1>11 DEF UnreplacedTo
<1>13. NoneOutlives(entry, emb, sig)'
  <2>1. ASSUME NEW j \in EntryIds \ blurred, emb'[j] > 0 PROVE entry'[j].ver > 0
    <3>1. CASE j = job.id
      BY <3>1, <1>12, <1>0
    <3>2. CASE j # job.id
      BY <3>2, <2>1, <1>0, <1>1, <1>10 DEF NoneOutlives
    <3> QED
      BY <3>1, <3>2
  <2>2. ASSUME NEW d \in Domains, NEW x \in Contents, NEW j, j = sig'[d][x], j # NoId, j \notin blurred
        PROVE  entry'[j].ver > 0 /\ Sig(entry'[j]) = <<d, x>>
    <3>1. j \in EntryIds /\ entry[j].ver > 0 /\ Sig(entry[j]) = <<d, x>>
      BY <2>2, <1>1, <1>7 DEF NoneOutlives, StoresTyped
    <3>2. OldEntry[j].ver > 0 /\ Sig(OldEntry[j]) = <<d, x>>
      BY <2>2, <1>7 DEF OldAtRest, AtRest, NoneOutlives
    <3>3. CASE j = job.id
      BY <3>2, <3>3, <2>2, <1>12
    <3>4. CASE j # job.id
      BY <3>1, <3>4, <1>0, <1>10
    <3> QED
      BY <3>3, <3>4
  <2> QED
    BY <2>1, <2>2 DEF NoneOutlives
<1>14. OldEntry' = OldEntry /\ OldEmb' = OldEmb /\ OldNode' = OldNode /\ OldSig' = OldSig
  BY Steady
<1>15. ASSUME job.id \notin blurred PROVE UnreplacedTo(job, m, n - 1)'
  <2>1. CASE m = 2 /\ n = 1
    <3>1. emb[job.id] = OldEmb[job.id] /\ node[job.id] = OldNode[job.id] /\ c.store = "row"
      BY <2>1, <1>2, <1>11, <1>15 DEF UnreplacedTo
    <3>2. emb'[job.id] = OldEmb[job.id] /\ node'[job.id] = OldNode[job.id] /\ entry'[job.id] = OldEntry[job.id]
      BY <3>1, <1>10
    <3> QED
      BY <2>1, <3>2, <1>14 DEF UnreplacedTo
  <2>2. CASE m = 3 /\ n = 3
    BY <2>2, <1>12, <1>14, <1>15 DEF UnreplacedTo
  <2>3. CASE m = 3 /\ n = 2
    <3>1. emb'[job.id] = OldEmb[job.id]
      BY <2>3, <1>2, <1>10
    <3> QED
      BY <2>3, <3>1, <1>12, <1>14, <1>15 DEF UnreplacedTo
  <2>4. CASE m = 3 /\ n = 1
    <3>1. node'[job.id] = OldEmb[job.id] /\ emb'[job.id] = OldEmb[job.id]
      BY <2>4, <1>2, <1>10, <1>11, <1>15 DEF UnreplacedTo
    <3> QED
      BY <2>4, <3>1, <1>12, <1>14, <1>15 DEF UnreplacedTo
  <2> QED
    BY <2>1, <2>2, <2>3, <2>4, <1>2
<1> QED
  BY <1>0, <1>7, <1>9, <1>13, <1>14, <1>15 DEF UndoKept, UndoStores

\* The list is one call shorter.
LEMMA UndoShorter ==
    ASSUME NEW job, NEW m, NEW n \in 0..8, NEW z, NEW q, UndoStage(job, m, n, z, q), n > 0,
           todo \in Seq(EngineCall), todo' = Tail(todo), before' = before, writes' = writes,
           UndoLen(job, m) \in Nat
    PROVE  /\ todo' \in Seq(EngineCall) /\ n - 1 = Len(todo') /\ n - 1 <= UndoLen(job, m)'
           /\ \A c \in 1..(n - 1) : todo'[c] = UndoCall(job, m, (n - 1) - c + 1)'
           /\ LeastOf(n - 1, BackLen(job))' = LeastOf(n - 1, BackLen(job))
<1>1. n = Len(todo) /\ n <= UndoLen(job, m) /\ \A c \in 1..n : todo[c] = UndoCall(job, m, n - c + 1)
  BY DEF UndoStage
<1>2. todo # <<>>
  BY <1>1
<1>3. /\ todo' \in Seq(EngineCall) /\ Len(todo') = Len(todo) - 1
      /\ \A c \in 1..(Len(todo) - 1) : todo'[c] = todo[c + 1]
  BY <1>2, ListShape
<1>4. /\ UndoLen(job, m)' = UndoLen(job, m) /\ BackLen(job)' = BackLen(job)
      /\ \A w : UndoCall(job, m, w)' = UndoCall(job, m, w)
  BY Steady
<1>5. ASSUME NEW c \in 1..(n - 1) PROVE todo'[c] = UndoCall(job, m, (n - 1) - c + 1)'
  <2>1. c + 1 \in 1..n /\ n - (c + 1) + 1 = (n - 1) - c + 1
    OBVIOUS
  <2>2. todo'[c] = UndoCall(job, m, n - (c + 1) + 1)
    BY <2>1, <1>1, <1>3
  <2> QED
    BY <2>1, <2>2, <1>4
<1>6. n - 1 <= UndoLen(job, m)
  BY <1>1
<1> QED
  BY <1>1, <1>3, <1>4, <1>5, <1>6 DEF LeastOf

LEMMA UndoLenNat ==
    ASSUME NEW job \in Jobs, NEW m \in Nat, m > 0
    PROVE  UndoLen(job, m) \in Nat
<1>1. job.p \in Nat /\ BackLen(job) \in Nat
  BY JobShape
<1> QED
  BY <1>1 DEF UndoLen

\* An undo with calls left is past the calls that take an entry out.
LEMMA UndoingAt ==
    ASSUME EngineLists, NEW job \in Jobs, NEW m \in 1..8, Undoing(job, m), todo # <<>>
    PROVE  /\ JobFits(job) /\ m <= JobLen(job) /\ m > job.p /\ UndoKept(job)
           /\ \E n, z, q \in 0..8 : n > 0 /\ UndoStage(job, m, n, z, q)
<1>1. m > job.p /\ \E n, z, q \in 0..8 : UndoStage(job, m, n, z, q)
  BY DEF Undoing, OutTorn
<1>2. PICK n \in 0..8, z \in 0..8, q \in 0..8 : UndoStage(job, m, n, z, q)
  BY <1>1
<1>3. n > 0
  BY <1>2, ListShape DEF EngineLists, UndoStage
<1> QED
  BY <1>1, <1>2, <1>3 DEF Undoing

LEMMA UndoWorks ==
    ASSUME EngineLists, OldAtRest, NEW job \in Jobs, NEW m \in 1..8, Undoing(job, m), CallWorks,
           mode = "undoing"
    PROVE  EngineLists' /\ Undoing(job, m)'
<1>1. /\ todo # <<>> /\ Apply(Head(todo)) /\ todo' = Tail(todo) /\ undo' = undo
      /\ UNCHANGED <<mode, writes, mishaps, before, result, torn, blurred>>
  BY DEF CallWorks
<1>2. JobFits(job) /\ m <= JobLen(job) /\ m > job.p /\ UndoKept(job) /\ m \in Nat
  <2>1. m \in Nat
    OBVIOUS
  <2>2. JobFits(job) /\ m <= JobLen(job) /\ m > job.p /\ UndoKept(job)
    BY <1>1, UndoingAt
  <2> QED
    BY <2>1, <2>2
<1>3. PICK n \in 0..8, z \in 0..8, q \in 0..8 : n > 0 /\ UndoStage(job, m, n, z, q)
  BY <1>1, UndoingAt
<1>4. Head(todo) = todo[1]
  BY <1>1, ListShape DEF EngineLists
<1>5. /\ todo' \in Seq(EngineCall) /\ n - 1 = Len(todo') /\ n - 1 <= UndoLen(job, m)'
      /\ \A c \in 1..(n - 1) : todo'[c] = UndoCall(job, m, (n - 1) - c + 1)'
      /\ LeastOf(n - 1, BackLen(job))' = LeastOf(n - 1, BackLen(job))
  <2>1. UndoLen(job, m) \in Nat
    BY <1>2, UndoLenNat
  <2> QED
    BY <2>1, <1>1, <1>3, UndoShorter DEF EngineLists
<1>6. UndoStores(job, m, n, z, q)
  BY <1>3 DEF UndoStage
<1>7. EngineLists' /\ JobFits(job)'
  BY <1>1, <1>2, <1>5, Steady DEF EngineLists
<1> DEFINE UndoGoes == UndoKept(job)' /\ \E z2, q2 \in 0..8 :
                          /\ z2 = LeastOf(n - 1, BackLen(job)) /\ q2 = (n - 1) - z2
                          /\ UndoStores(job, m, n - 1, z2, q2)'
<1>9. ASSUME Unreplaces(job, m, n)
      PROVE  UndoGoes
  <2>1. BackLen(job) = 0
    BY <1>9 DEF BackLen, Unreplaces
  <2>2. LeastOf(n - 1, BackLen(job)) = 0 /\ n - 1 \in 0..8 /\ (n - 1) - 0 = n - 1 /\ 0 \in 0..8
    BY <1>3, <2>1 DEF LeastOf
  <2>3. UndoKept(job)' /\ UndoStores(job, m, n - 1, 0, n - 1)'
    <3>1. PICK c : c = todo[1] /\ Apply(c)
      BY <1>1, <1>4
    <3> QED
      BY <3>1, <1>1, <1>2, <1>3, <1>6, <1>9, UndoReplace DEF Unreplaces
  <2> QED
    BY <2>2, <2>3
<1>10. ASSUME Drops(job, n, z, q)
      PROVE  UndoGoes
  <2>1. UndoKept(job)' /\ UndoStores(job, m, n - 1, z, q - 1)'
    BY <1>1, <1>2, <1>4, <1>6, <1>10, UndoDrop DEF Drops
  <2>2. q - 1 \in 0..8 /\ z = LeastOf(n - 1, BackLen(job)) /\ q - 1 = (n - 1) - z
    BY <1>10 DEF Drops
  <2> QED
    BY <2>1, <2>2
<1>11. ASSUME BringsBack(job, n, z, q)
      PROVE  UndoGoes
  <2>1. UndoKept(job)' /\ UndoStores(job, m, n - 1, z - 1, 0)'
    BY <1>1, <1>2, <1>4, <1>6, <1>11, UndoBack DEF BringsBack
  <2>2. z - 1 \in 0..8 /\ 0 \in 0..8 /\ z - 1 = LeastOf(n - 1, BackLen(job)) /\ 0 = (n - 1) - (z - 1)
    BY <1>11 DEF BringsBack
  <2> QED
    BY <2>1, <2>2
<1>12. UndoGoes
  <2>1. Unreplaces(job, m, n) \/ Drops(job, n, z, q) \/ BringsBack(job, n, z, q)
    BY <1>2, <1>3, UndoNext
  <2> HIDE DEF UndoGoes
  <2> QED
    BY <2>1, <1>9, <1>10, <1>11
<1>13. PICK z2 \in 0..8, q2 \in 0..8 : /\ z2 = LeastOf(n - 1, BackLen(job)) /\ q2 = (n - 1) - z2
                                      /\ UndoStores(job, m, n - 1, z2, q2)'
  BY <1>12
<1>14. UndoStage(job, m, n - 1, z2, q2)'
  <2>1. z2 = LeastOf(n - 1, BackLen(job)')
    BY <1>13, <1>5 DEF LeastOf
  <2> QED
    BY <1>5, <1>13, <2>1 DEF UndoStage
<1>15. n - 1 \in 0..8
  BY <1>3
<1>16. Undoing(job, m)'
  BY <1>2, <1>7, <1>12, <1>14, <1>15 DEF Undoing
<1> QED
  BY <1>7, <1>16

\* A call of the undo that fails blurs the entry it was about.
LEMMA UndoBlurs ==
    ASSUME EngineLists, OldAtRest, NEW job \in Jobs, NEW m \in 1..8, Undoing(job, m), UndoFails
    PROVE  EngineLists' /\ Undoing(job, m)' /\ todo[1].id \in Ids
<1> DEFINE c == todo[1]
<1>1. /\ todo # <<>> /\ FailedApply(c) /\ todo' = (IF c.must THEN <<>> ELSE Tail(todo))
      /\ blurred' = blurred \cup {c.id} /\ UNCHANGED <<undo, mode, writes, before, result, torn>>
  BY ListShape DEF UndoFails, EngineLists
<1>2. JobFits(job) /\ m <= JobLen(job) /\ m > job.p /\ UndoKept(job) /\ m \in Nat
  <2>1. m \in Nat
    OBVIOUS
  <2>2. JobFits(job) /\ m <= JobLen(job) /\ m > job.p /\ UndoKept(job)
    BY <1>1, UndoingAt
  <2> QED
    BY <2>1, <2>2
<1>3. PICK n \in 0..8, z \in 0..8, q \in 0..8 : n > 0 /\ UndoStage(job, m, n, z, q)
  BY <1>1, UndoingAt
<1>4. UndoLen(job, m) \in Nat /\ BackLen(job) \in Nat
  BY <1>2, UndoLenNat, JobShape
<1>5. c.id \in Ids /\ c.store \in {"row", "emb", "node", "sig", "slot"}
  <2>1. c \in EngineCall
    BY <1>1, ListShape DEF EngineLists
  <2> QED
    BY <2>1 DEF EngineCall
<1>6. UndoStores(job, m, n, z, q)
  BY <1>3 DEF UndoStage
<1>7. \/ job.kind = "replace" /\ c.id = job.id /\ c.must = FALSE /\ job.out = NoId
      \/ /\ job.kind = "create" /\ q \in 1..4 /\ z = BackLen(job) /\ c.id = job.id /\ c.must = FALSE
         /\ LeastOf(n - 1, BackLen(job)) = z /\ (n - 1) - z = q - 1
      \/ /\ job.kind = "create" /\ q = 0 /\ c.id = job.out
         /\ LeastOf(n - 1, BackLen(job)) = z - 1 /\ (n - 1) - (z - 1) = 0 /\ z \in 1..8
  <2>1. CASE Unreplaces(job, m, n)
    BY <2>1 DEF Unreplaces, Try, Must
  <2>2. CASE Drops(job, n, z, q)
    <3>1. c.id = job.id /\ c.must = FALSE
      BY <2>2 DEF Drops, DropCall, Try, Must
    <3> QED
      BY <2>2, <3>1 DEF Drops
  <2>3. CASE BringsBack(job, n, z, q)
    <3>1. c.id = job.out
      BY <2>3 DEF BringsBack, BackCall, Try, Must
    <3> QED
      BY <2>3, <3>1, <1>3 DEF BringsBack
  <2>0. Unreplaces(job, m, n) \/ Drops(job, n, z, q) \/ BringsBack(job, n, z, q)
    BY <1>2, <1>3, UndoNext
  <2> QED
    BY <2>0, <2>1, <2>2, <2>3
<1>8. StoresTyped(entry, emb, node, sig) /\ NoneOutlives(entry, emb, sig)
      /\ Unused(entry, emb, node, sig, writes) /\ OthersKept(job)
  BY <1>2 DEF UndoKept
<1>9. c.store = "node" => c.val \in Nat
  <2>1. OldEmb[job.id] \in Nat \/ job.id \notin Ids
    BY DEF OldAtRest, AtRest, StoresTyped
  <2>2. OldEmb[job.out] \in Nat \/ job.out \notin Ids
    BY DEF OldAtRest, AtRest, StoresTyped
  <2>3. CASE Unreplaces(job, m, n)
    BY <2>1, <2>3 DEF Unreplaces, Try, Must
  <2>4. CASE todo[1] = DropCall(job, q)
    BY <2>4 DEF DropCall, Try, Must
  <2>5. CASE todo[1] = BackCall(job, z) /\ job.out \in EntryIds
    BY <2>2, <2>5, IdsApart DEF BackCall, Try, Must
  <2>0. Unreplaces(job, m, n) \/ Drops(job, n, z, q) \/ BringsBack(job, n, z, q)
    BY <1>2, <1>3, UndoNext
  <2> QED
    BY <2>0, <2>3, <2>4, <2>5 DEF Drops, BringsBack
<1> HIDE DEF c
<1>10. /\ entry' = entry /\ emb' = emb /\ sig' = sig
       /\ \A j \in Ids : node'[j] = node[j] \/ j = c.id
       /\ StoresTyped(entry', emb', node', sig')
  BY <1>1, <1>5, <1>8, <1>9, FailKeeps
<1>11. /\ OldEntry' = OldEntry /\ OldEmb' = OldEmb /\ OldNode' = OldNode /\ OldSig' = OldSig
       /\ JobFits(job)' /\ BackLen(job)' = BackLen(job) /\ UndoLen(job, m)' = UndoLen(job, m)
       /\ \A j : OldKey(j)' = OldKey(j)
  BY <1>1, <1>2, Steady
<1>12. \A j : Sound(j)' => Sound(j) /\ j # c.id
  BY <1>1 DEF Sound
<1>13. UndoKept(job)'
  <2>1. StoresTyped(entry, emb, node, sig)'
    BY <1>10 DEF StoresTyped
  <2>2. NoneOutlives(entry, emb, sig)'
    BY <1>1, <1>8, <1>10 DEF NoneOutlives
  <2>3. c.id = job.id \/ c.id = job.out
    BY <1>7
  <2>4. OthersKept(job)'
    BY <2>3, <1>8, <1>10, <1>11, <1>12 DEF OthersKept, Signed
  <2>5. Unused(entry, emb, node, sig, writes)'
    <3> SUFFICES ASSUME NEW j \in EntryIds, j > writes
                 PROVE  /\ entry'[j] = NoRow /\ emb'[j] = 0 /\ node'[j] = 0
                        /\ \A d \in Domains, x \in Contents : sig'[d][x] # j
      BY <1>1 DEF Unused
    <3>1. writes \in Nat /\ j \in Nat /\ j \in Ids
      BY IdsApart DEF OldAtRest
    <3>2. job.id \in EntryIds => job.id <= writes
      BY <1>2, JobApart
    <3>3. job.out \in EntryIds => job.out < writes
      BY <1>2, JobApart
    <3>4. j # job.id /\ j # job.out
      BY <3>1, <3>2, <3>3
    <3> QED
      BY <3>1, <3>4, <2>3, <1>8, <1>10 DEF Unused
  <2> QED
    BY <2>1, <2>2, <2>4, <2>5 DEF UndoKept
<1>14. NoId \notin Ids /\ job.id # job.out /\ job.p \in {0, 3, 4}
       /\ (job.kind = "create" => job.id \in Ids) /\ BackLen(job) \in {0, 2, 4}
  BY <1>2, IdsApart, JobApart, JobShape DEF JobFits
<1>15. ASSUME job.kind = "create", q = 0, c.id = job.out, NEW n2, NEW z2
       PROVE  UndoStores(job, m, n2, z2, 0)'
  <2>1. ASSUME job.id \notin blurred' PROVE DroppedTo(job, 0)'
    <3>1. DroppedTo(job, 0)
      BY <1>1, <1>6, <1>15, <2>1 DEF UndoStores
    <3>2. node'[job.id] = node[job.id]
      BY <1>10, <1>14, <1>15
    <3> QED
      BY <3>1, <3>2, <1>10 DEF DroppedTo
  <2>2. SigsBack(job, z2, 0)'
    <3>1. ~Sound(job.out)' /\ torn' \cup blurred' # {}
      BY <1>1, <1>12, <1>15
    <3> QED
      BY <3>1 DEF SigsBack
  <2>3. job.out \in blurred'
    BY <1>1, <1>15
  <2> QED
    BY <2>1, <2>2, <2>3, <1>15 DEF UndoStores
<1>16. ASSUME job.kind = "create", c.id = job.id, z = BackLen(job), NEW n2, NEW q2
       PROVE  UndoStores(job, m, n2, z, q2)'
  <2>1. job.id \in blurred' /\ torn' \cup blurred' # {}
    BY <1>1, <1>16
  <2>2. SigsBack(job, z, q2)'
    <3>1. job.p = 4 /\ Sound(job.out) =>
              sig[OldEntry[job.out].domain][OldEntry[job.out].text]
                = (IF job.p = 4 /\ z >= BackLen(job) - 1 THEN NoId ELSE job.out)
      BY <1>6, <1>16 DEF UndoStores, SigsBack
    <3> QED
      BY <3>1, <2>1, <1>10, <1>11, <1>12 DEF SigsBack
  <2>3. ASSUME job.out \in Ids \ blurred' PROVE BackTo(job, z)'
    <3>1. BackTo(job, z)
      BY <2>3, <1>1, <1>6 DEF UndoStores
    <3>2. node'[job.out] = node[job.out]
      BY <2>3, <1>10, <1>14, <1>16
    <3> QED
      BY <3>1, <3>2, <1>10, <1>11 DEF BackTo
  <2> QED
    BY <2>1, <2>2, <2>3, <1>16 DEF UndoStores
<1>17. ASSUME job.kind = "replace", c.id = job.id, job.out = NoId, NEW n2, NEW z2, NEW q2
       PROVE  UndoStores(job, m, n2, z2, q2)'
  BY <1>1, <1>6, <1>10, <1>11, <1>14, <1>17 DEF UndoStores
<1>18. undo' \in Seq(Seq(EngineCall))
  BY <1>1 DEF EngineLists
<1>19. CASE c.must
  <2>1. job.kind = "create" /\ q = 0 /\ c.id = job.out
    BY <1>7, <1>19
  <2>2. todo' = <<>> /\ <<>> \in Seq(EngineCall) /\ Len(<<>>) = 0
    BY <1>1, <1>19
  <2>3. 0 = LeastOf(0, BackLen(job)') /\ 0 = 0 - 0 /\ 0 <= UndoLen(job, m)'
    BY <1>4, <1>11 DEF LeastOf
  <2>4. UndoStores(job, m, 0, 0, 0)'
    BY <2>1, <1>15
  <2>5. UndoStage(job, m, 0, 0, 0)'
    BY <2>2, <2>3, <2>4 DEF UndoStage
  <2>6. 0 \in 0..8
    OBVIOUS
  <2> QED
    BY <2>2, <2>5, <2>6, <1>2, <1>5, <1>11, <1>13, <1>18 DEF Undoing, EngineLists, c
<1>20. CASE ~c.must
  <2>1. todo' = Tail(todo)
    BY <1>1, <1>20
  <2>2. /\ todo' \in Seq(EngineCall) /\ n - 1 = Len(todo') /\ n - 1 <= UndoLen(job, m)'
        /\ \A e \in 1..(n - 1) : todo'[e] = UndoCall(job, m, (n - 1) - e + 1)'
        /\ LeastOf(n - 1, BackLen(job))' = LeastOf(n - 1, BackLen(job))
    BY <2>1, <1>1, <1>3, <1>4, UndoShorter DEF EngineLists
  <2>3. \E z2, q2 \in 0..8 : /\ z2 = LeastOf(n - 1, BackLen(job)) /\ q2 = (n - 1) - z2
                             /\ UndoStores(job, m, n - 1, z2, q2)'
    <3>1. CASE job.kind = "replace" /\ c.id = job.id /\ job.out = NoId
      <4>1. LeastOf(n - 1, BackLen(job)) = 0 /\ n - 1 \in 0..8 /\ (n - 1) - 0 = n - 1 /\ 0 \in 0..8
        <5>1. BackLen(job) = 0
          BY <3>1 DEF BackLen
        <5> QED
          BY <5>1, <1>3 DEF LeastOf
      <4>2. UndoStores(job, m, n - 1, 0, n - 1)'
        BY <3>1, <1>17
      <4> QED
        BY <4>1, <4>2
    <3>2. CASE /\ job.kind = "create" /\ q \in 1..4 /\ z = BackLen(job) /\ c.id = job.id
               /\ LeastOf(n - 1, BackLen(job)) = z /\ (n - 1) - z = q - 1
      <4>1. q - 1 \in 0..8
        BY <3>2
      <4>2. UndoStores(job, m, n - 1, z, q - 1)'
        BY <3>2, <1>16
      <4> QED
        BY <3>2, <4>1, <4>2
    <3>3. CASE /\ job.kind = "create" /\ q = 0 /\ c.id = job.out
               /\ LeastOf(n - 1, BackLen(job)) = z - 1 /\ (n - 1) - (z - 1) = 0 /\ z \in 1..8
      <4>1. z - 1 \in 0..8 /\ 0 \in 0..8
        BY <3>3
      <4>2. UndoStores(job, m, n - 1, z - 1, 0)'
        BY <3>3, <1>15
      <4> QED
        BY <3>3, <4>1, <4>2
    <3> QED
      BY <1>7, <3>1, <3>2, <3>3
  <2>4. PICK z2 \in 0..8, q2 \in 0..8 : /\ z2 = LeastOf(n - 1, BackLen(job)) /\ q2 = (n - 1) - z2
                                        /\ UndoStores(job, m, n - 1, z2, q2)'
    BY <2>3
  <2>5. UndoStage(job, m, n - 1, z2, q2)'
    <3>1. z2 = LeastOf(n - 1, BackLen(job)')
      BY <2>4, <1>11
    <3> QED
      BY <3>1, <2>2, <2>4 DEF UndoStage
  <2>6. n - 1 \in 0..8
    BY <1>3
  <2> QED
    BY <2>2, <2>5, <2>6, <1>2, <1>5, <1>11, <1>13, <1>18 DEF Undoing, EngineLists, c
<1> QED
  BY <1>19, <1>20

\* An entry that no call of the undo is still about is complete.
LEMMA UndoRests ==
    ASSUME EngineLists, OldAtRest, NEW job \in Jobs, NEW m \in 1..8, Undoing(job, m),
           NEW j \in Ids, Sound(j), \A c \in 1..Len(todo) : todo[c].id # j
    PROVE  /\ emb[j] = entry[j].ver /\ node[j] = entry[j].ver /\ Signed(entry, sig, j)
           /\ torn \cup blurred = {} => entry[j] = OldEntry[j] /\ emb[j] = OldEmb[j] /\ node[j] = OldNode[j]
<1>0. JobFits(job) /\ m <= JobLen(job) /\ UndoKept(job)
  BY DEF Undoing
<1>1. /\ NoId \notin Ids /\ EntryIds \subseteq Ids /\ job.id # job.out /\ j \notin blurred /\ j \notin torn
      /\ NoRow.ver = 0 /\ job.p \in {0, 3, 4} /\ job.kind \in {"create", "replace", "forget"}
  BY <1>0, IdsApart, JobApart, JobShape, NoRowTyped DEF Sound
<1>2. OldEmb[j] = OldEntry[j].ver /\ OldNode[j] = OldEntry[j].ver /\ Signed(OldEntry, OldSig, j)
  BY DEF OldAtRest, AtRest, SoundComplete
<1>3. ASSUME job.kind = "create", j = job.id
      PROVE  OldEntry[j] = NoRow /\ OldEmb[j] = 0 /\ OldNode[j] = 0
  <2>1. job.id \in EntryIds /\ job.id > writes - 1
    BY <1>0, <1>3 DEF JobFits, OldAtRest
  <2> QED
    BY <2>1, <1>3 DEF OldAtRest, AtRest, Unused
<1>4. CASE j # job.id /\ j # job.out
  <2>1. entry[j] = OldEntry[j] /\ emb[j] = OldEmb[j] /\ node[j] = OldNode[j] /\ Signed(OldEntry, sig, j)
    BY <1>0, <1>4 DEF UndoKept, OthersKept
  <2> QED
    BY <2>1, <1>2 DEF Signed
<1>5. CASE (j = job.id \/ j = job.out) /\ m <= job.p
  <2>1. OutTorn(job)
    BY <1>1, <1>5, JobShape DEF Undoing
  <2>2. j = job.id
    BY <2>1, <1>1, <1>5 DEF OutTorn
  <2>3. job.kind = "create"
    <3>1. m > 0
      OBVIOUS
    <3> QED
      BY <3>1, <2>2, <1>0, <1>1, <1>5 DEF JobFits
  <2>4. entry[j] = OldEntry[j] /\ emb[j] = OldEmb[j] /\ node[j] = OldNode[j]
    BY <2>1, <2>2 DEF OutTorn
  <2> QED
    BY <2>2, <2>3, <2>4, <1>1, <1>3 DEF Signed
<1>6. CASE (j = job.id \/ j = job.out) /\ ~(m <= job.p)
  <2>1. PICK n \in 0..8, z \in 0..8, q \in 0..8 : UndoStage(job, m, n, z, q)
    BY <1>6 DEF Undoing
  <2>2. /\ n = Len(todo) /\ z = LeastOf(n, BackLen(job)) /\ q = n - z /\ UndoStores(job, m, n, z, q)
        /\ \A c \in 1..n : todo[c] = UndoCall(job, m, n - c + 1)
    BY <2>1 DEF UndoStage
  <2>3. BackLen(job) \in {0, 2, 4} /\ m > job.p /\ m \in Nat
    BY <1>1, <1>6, JobShape
  <2>4. n > 0 => todo[1].id # j
    BY <2>2
  <2>5. CASE job.kind = "create" /\ j = job.id
    <3>1. ~(q \in 1..4)
      <4>1. SUFFICES ASSUME q \in 1..4 PROVE FALSE
        OBVIOUS
      <4>2. n > 0
        <5>1. q = n - z
          BY <2>2
        <5> QED
          BY <4>1, <5>1
      <4>3. todo[1] = DropCall(job, q)
        <5>1. Unreplaces(job, m, n) \/ Drops(job, n, z, q) \/ BringsBack(job, n, z, q)
          BY <4>2, <2>1, <2>3, <1>0, UndoNext
        <5> QED
          BY <5>1, <4>1, <2>5 DEF Unreplaces, Drops, BringsBack
      <4> QED
        BY <4>2, <4>3, <2>4, <2>5 DEF DropCall, Try, Must
    <3>2. q = 0
      <4>1. CASE n = 0
        BY <4>1, <2>2, <2>3 DEF LeastOf
      <4>2. CASE n > 0
        <5>1. q \in 1..4 \/ q = 0
          <6>1. Unreplaces(job, m, n) \/ Drops(job, n, z, q) \/ BringsBack(job, n, z, q)
            BY <4>2, <2>1, <2>3, <1>0, UndoNext
          <6> QED
            BY <6>1, <2>5 DEF Unreplaces, Drops, BringsBack
        <5> QED
          BY <5>1, <3>1
      <4> QED
        BY <4>1, <4>2
    <3>3. entry[j] = NoRow /\ emb[j] = 0 /\ node[j] = 0
      BY <3>2, <2>2, <2>5, <1>1 DEF UndoStores, DroppedTo
    <3> QED
      BY <3>3, <2>5, <1>1, <1>3 DEF Signed
  <2>6. CASE j = job.out
    <3>0. job.kind = "create" /\ job.out \in EntryIds /\ job.out # NoId
      <4>1. JobLen(job) \in Nat /\ (job.kind = "forget" => JobLen(job) = job.p)
        BY JobShape
      <4>2. job.kind # "forget"
        BY <4>1, <2>3, <1>0, <1>1
      <4> QED
        BY <4>2, <2>6, <1>0, <1>1 DEF JobFits
    <3>1. BackLen(job) \in {2, 4}
      BY <3>0, <2>3, JobShape
    <3>2. z = 0
      <4>1. SUFFICES ASSUME z # 0 PROVE FALSE
        OBVIOUS
      <4>2. n > 0 /\ n \in 1..n /\ n - n + 1 = 1 /\ 1 <= BackLen(job)
        BY <4>1, <3>1, <2>2 DEF LeastOf
      <4>3. todo[n] = UndoCall(job, m, 1)
        BY <4>2, <2>2
      <4>4. todo[n] = BackCall(job, 1)
        BY <4>2, <4>3, <3>0 DEF UndoCall
      <4>5. todo[n].id = job.out
        BY <4>4 DEF BackCall, Try, Must
      <4> QED
        BY <4>2, <4>5, <2>2, <2>6
    <3>3. q = 0 /\ n = 0
      BY <3>1, <3>2, <2>2 DEF LeastOf
    <3>4. BackTo(job, 0)
      BY <3>2, <2>2, <2>6, <1>1 DEF UndoStores
    <3>5. entry[j] = OldEntry[j] /\ emb[j] = OldEmb[j] /\ node[j] = OldEmb[j]
      <4>1. 0 # BackLen(job) /\ 0 <= 1
        BY <3>1
      <4> QED
        BY <4>1, <3>4, <2>6 DEF BackTo
    <3>6. OldPresent(job.out)
      BY <1>0, <3>0, <1>1 DEF JobFits
    <3>7. job.p = 4 /\ BackLen(job) = 4
      BY <3>0, <3>6, <2>6, <1>0, KeysApart
    <3>8. sig[OldEntry[job.out].domain][OldEntry[job.out].text] = job.out
      <4>1. ~(0 >= BackLen(job) - 1)
        BY <3>7
      <4>2. SigsBack(job, 0, 0)
        BY <3>0, <3>2, <3>3, <2>2 DEF UndoStores
      <4> QED
        BY <4>1, <4>2, <3>7, <2>6 DEF SigsBack
    <3> QED
      BY <3>5, <3>8, <2>6, <1>2 DEF Signed
  <2>7. CASE job.kind = "replace" /\ j = job.id
    <3>1. n = 0
      <4>1. SUFFICES ASSUME n > 0 PROVE FALSE
        OBVIOUS
      <4>2. \/ todo[1] = Try("row", job.id, OldEntry[job.id])
            \/ todo[1] = Try("emb", job.id, OldEmb[job.id])
            \/ todo[1] = Try("node", job.id, OldEmb[job.id])
        <5>1. Unreplaces(job, m, n) \/ Drops(job, n, z, q) \/ BringsBack(job, n, z, q)
          BY <4>1, <2>1, <2>3, <1>0, UndoNext
        <5> QED
          BY <5>1, <2>7 DEF Unreplaces, Drops, BringsBack
      <4>3. todo[1].id = job.id
        BY <4>2 DEF Try, Must
      <4> QED
        BY <4>1, <4>3, <2>4, <2>7
    <3>2. UnreplacedTo(job, m, 0) /\ sig = OldSig
      BY <3>1, <2>2, <2>7, <1>1 DEF UndoStores
    <3>3. m \in 1..3
      <4>1. JobLen(job) = 3
        BY <2>7, <1>0, JobShape DEF JobFits
      <4> QED
        BY <4>1, <1>0
    <3>4. entry[j] = OldEntry[j] /\ emb[j] = OldEmb[j] /\ (node[j] = OldNode[j] \/ node[j] = OldEmb[j])
      <4>1. CASE m = 3
        BY <4>1, <3>2, <2>7 DEF UnreplacedTo
      <4>2. CASE m \in 1..2
        BY <4>2, <3>2, <2>7 DEF UnreplacedTo
      <4> QED
        BY <4>1, <4>2, <3>3
    <3> QED
      BY <3>2, <3>4, <1>2 DEF Signed
  <2>8. job.kind = "forget" => job.id = NoId
    BY <1>0 DEF JobFits
  <2> QED
    BY <2>5, <2>6, <2>7, <2>8, <1>1, <1>6
<1> QED
  BY <1>4, <1>5, <1>6

LEMMA UndoingRestart ==
    ASSUME EngineInv, OldAtRest, mode = "undoing", Restart, NEW job \in Jobs, NEW m \in 1..8, Undoing(job, m)
    PROVE  EngineInv'
<1>1. StoresTyped(entry, emb, node, sig) /\ NoneOutlives(entry, emb, sig)
      /\ Unused(entry, emb, node, sig, writes)
  BY DEF Undoing, UndoKept
<1>2. torn' = torn \cup {todo[c].id : c \in 1..Len(todo)} /\ blurred' = blurred
  BY DEF Restart
<1>3. ASSUME NEW j \in Ids, Sound(j)' PROVE emb[j] = entry[j].ver /\ Signed(entry, sig, j)
  <2>1. Sound(j) /\ \A c \in 1..Len(todo) : todo[c].id # j
    BY <1>2, <1>3 DEF Sound
  <2> QED
    BY <2>1, UndoRests DEF EngineInv
<1> QED
  BY <1>1, <1>3, RestartRests

\* An undo that has come to its end, with no other mishap, has put back all.
LEMMA UndoneSame ==
    ASSUME EngineLists, OldAtRest, NEW job \in Jobs, NEW m \in 1..8, Undoing(job, m),
           todo = <<>>, torn \cup blurred = {}
    PROVE  entry = OldEntry /\ emb = OldEmb /\ node = OldNode /\ sig = OldSig
<1>0. \A j \in Ids : Sound(j) /\ \A c \in 1..Len(todo) : todo[c].id # j
  BY DEF Sound
<1>1. \A j \in Ids : entry[j] = OldEntry[j] /\ emb[j] = OldEmb[j] /\ node[j] = OldNode[j]
  BY <1>0, UndoRests
<1>2. StoresTyped(entry, emb, node, sig) /\ StoresTyped(OldEntry, OldEmb, OldNode, OldSig)
  BY DEF Undoing, UndoKept, OldAtRest, AtRest
<1>3. entry = OldEntry /\ emb = OldEmb /\ node = OldNode
  BY <1>1, <1>2 DEF StoresTyped
<1>4. ~(m <= job.p)
  <2>1. job.p \in Nat /\ m \in Nat
    BY JobShape
  <2>2. m <= job.p => OutTorn(job)
    BY <2>1 DEF Undoing
  <2> QED
    BY <2>2 DEF OutTorn
<1>5. PICK n \in 0..8, z \in 0..8, q \in 0..8 : UndoStage(job, m, n, z, q)
  BY <1>4 DEF Undoing
<1>6. BackLen(job) \in {0, 2, 4} /\ job.p \in {0, 3, 4}
  BY JobShape
<1>7. n = 0 /\ z = 0 /\ q = 0 /\ UndoStores(job, m, 0, 0, 0)
  <2>1. n = 0 /\ z = LeastOf(n, BackLen(job)) /\ q = n - z
    BY <1>5 DEF UndoStage
  <2>2. z = 0 /\ q = 0
    BY <2>1, <1>6 DEF LeastOf
  <2> QED
    BY <2>1, <2>2, <1>5 DEF UndoStage
<1>8. JobFits(job) /\ m <= JobLen(job) /\ JobLen(job) \in Nat /\ (job.kind = "forget" => JobLen(job) = job.p)
  BY JobShape DEF Undoing
<1>9. job.kind \in {"create", "replace"}
  BY <1>4, <1>6, <1>8, JobShape
<1>10. CASE job.kind = "create"
  <2>1. ~(job.p = 4 /\ 0 >= BackLen(job) - 1)
    <3>1. ASSUME job.p = 4 PROVE BackLen(job) # 0
      BY <3>1, <1>8, IdsApart, JobShape DEF JobFits
    <3> QED
      BY <3>1, <1>6
  <2>2. \A d \in Domains, x \in Contents : sig[d][x] = OldSig[d][x]
    BY <1>7, <1>10, <2>1 DEF UndoStores, SigsBack
  <2>3. /\ sig \in [Domains -> [Contents -> EntryIds \cup {NoId}]]
        /\ OldSig \in [Domains -> [Contents -> EntryIds \cup {NoId}]]
    BY <1>2 DEF StoresTyped
  <2>4. \A d \in Domains : sig[d] = OldSig[d]
    BY <2>2, <2>3
  <2> QED
    BY <2>3, <2>4, <1>3
<1>11. CASE job.kind = "replace"
  BY <1>3, <1>7, <1>11 DEF UndoStores
<1> QED
  BY <1>9, <1>10, <1>11

LEMMA UndoingEnds ==
    ASSUME EngineInv, OldAtRest, mode = "undoing", OperationEnds, NEW job \in Jobs, NEW m \in 1..8,
           Undoing(job, m)
    PROVE  EngineInv'
<1>2. /\ todo = <<>> /\ mode' = "idle" /\ undo' = <<>>
      /\ UNCHANGED <<entry, emb, node, sig, todo, writes, mishaps, before, result, torn, blurred>>
  BY DEF OperationEnds, stores
<1>5. StoresTyped(entry, emb, node, sig) /\ Unused(entry, emb, node, sig, writes) /\ NoneOutlives(entry, emb, sig)
  BY DEF Undoing, UndoKept
<1>6. SoundComplete(entry, emb, node, sig)
  <2>1. \A c \in 1..Len(todo) : FALSE
    BY <1>2
  <2> QED
    BY <2>1, UndoRests DEF SoundComplete, EngineInv
<1>7. AtRest(entry, emb, node, sig, writes)
  BY <1>5, <1>6 DEF AtRest
<1>8. AtRest(entry, emb, node, sig, writes)'
  BY <1>2, <1>7 DEF AtRest, StoresTyped, Unused, NoneOutlives, SoundComplete, Signed, Sound
<1>9. EngineLists'
  <2>1. <<>> \in Seq(Seq(EngineCall))
    OBVIOUS
  <2> QED
    BY <1>2, <2>1 DEF EngineInv, EngineLists
<1>10. ASSUME torn' \cup blurred' = {} PROVE before' = <<entry', emb', node', sig'>>
  <2>1. before = <<OldEntry, OldEmb, OldNode, OldSig>>
    BY DEF EngineInv
  <2>2. entry = OldEntry /\ emb = OldEmb /\ node = OldNode /\ sig = OldSig
    BY <1>2, <1>10, UndoneSame DEF EngineInv
  <2> QED
    BY <2>1, <2>2, <1>2
<1> QED
  BY <1>2, <1>8, <1>9, <1>10 DEF EngineInv

\* An operation begins with its job.
LEMMA Begins ==
    ASSUME EngineInv, NEW cs, NEW us, Begin(cs, us), NEW job \in Jobs, JobFits(job)',
           cs \in Seq(EngineCall), us \in Seq(Seq(EngineCall)), Len(cs) = JobLen(job), Len(us) = Len(cs),
           \A c \in 1..Len(cs) : cs[c] = JobCall(job, c)',
           \A c \in 1..Len(cs) : IsUndo(us[c], job, c)'
    PROVE  EngineInv'
<1>1. /\ mode = "idle" /\ writes < MaxWrites /\ writes' = writes + 1 /\ mode' = "doing"
      /\ todo' = cs /\ undo' = us /\ before' = <<entry, emb, node, sig>> /\ result' = "ok"
      /\ UNCHANGED <<entry, emb, node, sig, mishaps, torn, blurred>>
  BY DEF Begin, stores
<1>2. AtRest(entry, emb, node, sig, writes) /\ writes \in 0..MaxWrites
  BY <1>1 DEF EngineInv
<1>3. OldEntry' = entry /\ OldEmb' = emb /\ OldNode' = node /\ OldSig' = sig
  BY <1>1 DEF OldEntry, OldEmb, OldNode, OldSig
<1>4. writes' \in 0..MaxWrites /\ writes' > 0 /\ writes' - 1 = writes
  BY <1>1, <1>2, IdsApart
<1>5. AtRest(OldEntry, OldEmb, OldNode, OldSig, writes - 1)'
  <2>1. StoresTyped(OldEntry, OldEmb, OldNode, OldSig)'
    BY <1>2, <1>3 DEF AtRest, StoresTyped
  <2>2. Unused(OldEntry, OldEmb, OldNode, OldSig, writes - 1)'
    BY <1>2, <1>3, <1>4 DEF AtRest, Unused
  <2>3. NoneOutlives(OldEntry, OldEmb, OldSig)'
    BY <1>1, <1>2, <1>3 DEF AtRest, NoneOutlives
  <2>4. SoundComplete(OldEntry, OldEmb, OldNode, OldSig)'
    BY <1>1, <1>2, <1>3 DEF AtRest, SoundComplete, Signed, Sound
  <2> QED
    BY <2>1, <2>2, <2>3, <2>4 DEF AtRest
<1>6. /\ job.p \in {0, 3, 4} /\ JobLen(job) \in 0..8 /\ NoId \notin Ids
      /\ job.p = 0 => job.out = NoId
      /\ job.kind = "forget" => job.id = NoId
      /\ job.kind # "forget" => JobLen(job) >= 3
  BY JobShape, IdsApart DEF JobFits
<1>7. StoresAt(job, 0)'
  <2>1. \A j \in Ids : /\ RowAt(job, 0, j)' = OldEntry'[j] /\ EmbAt(job, 0, j)' = OldEmb'[j]
                       /\ NodeAt(job, 0, j)' = OldNode'[j]
    BY <1>6 DEF RowAt, EmbAt, NodeAt
  <2>2. \A d \in Domains, x \in Contents : SigAt(job, 0, d, x)' = OldSig'[d][x]
    BY <1>6 DEF SigAt
  <2>3. StoresTyped(entry, emb, node, sig)
    BY <1>2 DEF AtRest
  <2>4. /\ entry' = [j \in Ids |-> RowAt(job, 0, j)'] /\ emb' = [j \in Ids |-> EmbAt(job, 0, j)']
        /\ node' = [j \in Ids |-> NodeAt(job, 0, j)']
    BY <2>1, <2>3, <1>1, <1>3 DEF StoresTyped
  <2>5. sig' = [d \in Domains |-> [x \in Contents |-> SigAt(job, 0, d, x)']]
    <3>1. sig' \in [Domains -> [Contents -> EntryIds \cup {NoId}]]
      BY <2>3, <1>1 DEF StoresTyped
    <3>2. \A d \in Domains : sig'[d] = [x \in Contents |-> SigAt(job, 0, d, x)']
      BY <3>1, <2>2, <1>1, <1>3
    <3> QED
      BY <3>1, <3>2
  <2> QED
    BY <2>4, <2>5 DEF StoresAt
<1>8. Doing(job, 0)'
  <2>1. ASSUME NEW c \in 1..Len(todo')
        PROVE  todo'[c] = JobCall(job, 0 + c)' /\ IsUndo(undo[c], job, 0 + c)'
    <3>1. 0 + c = c /\ c \in 1..Len(cs)
      BY <2>1, <1>1
    <3>2. todo'[c] = JobCall(job, c)' /\ IsUndo(us[c], job, c)'
      BY <3>1, <1>1
    <3>3. IsUndo(undo[c], job, c)'
      BY <3>2, <1>1 DEF IsUndo
    <3> QED
      BY <3>1, <3>2, <3>3
  <2>2. Len(todo') = JobLen(job) - 0 /\ Len(undo') = Len(todo') /\ 0 <= JobLen(job)
    BY <1>1, <1>6
  <2> QED
    BY <2>1, <2>2, <1>7 DEF Doing
<1>9. \E jb \in Jobs, k \in 0..8 : Doing(jb, k)'
  <2>1. 0 \in 0..8
    OBVIOUS
  <2> QED
    BY <2>1, <1>8
<1>10. EngineLists'
  BY <1>1 DEF EngineLists
<1>11. before' = <<OldEntry, OldEmb, OldNode, OldSig>>'
  BY <1>1, <1>3
<1> QED
  BY <1>1, <1>4, <1>5, <1>9, <1>10, <1>11 DEF EngineInv

LEMMA ValTyped ==
    ASSUME NEW r \in EntryRow, NEW i \in Ids \cup {NoId}
    PROVE  r \in EngineVal /\ [key |-> Sig(r), to |-> i] \in EngineVal /\ r.ver \in EngineVal
           /\ 0 \in EngineVal /\ NoRow \in EngineVal
<1>1. Sig(r) \in (Domains \cup {NoText}) \X (Contents \cup {NoText})
  BY DEF Sig, EntryRow
<1>2. [key |-> Sig(r), to |-> i] \in [key : (Domains \cup {NoText}) \X (Contents \cup {NoText}), to : Ids \cup {NoId}]
  BY <1>1
<1>3. r.ver \in Nat /\ 0 \in Nat
  BY DEF EntryRow
<1> QED
  BY <1>2, <1>3, NoRowTyped DEF EngineVal

LEMMA SameList ==
    ASSUME NEW S, NEW s \in Seq(S), NEW t \in Seq(S), Len(s) = Len(t), \A c \in 1..Len(s) : s[c] = t[c]
    PROVE  s = t
  OBVIOUS

LEMMA Joined12 ==
    ASSUME NEW a, NEW b, NEW c
    PROVE  <<a>> \o <<b, c>> = <<a, b, c>>
<1> DEFINE S == {a, b, c}
<1>1. <<a>> \in Seq(S) /\ <<b, c>> \in Seq(S) /\ <<a, b, c>> \in Seq(S) /\ Len(<<a, b, c>>) = 3
  OBVIOUS
<1>2. <<a>> \o <<b, c>> \in Seq(S) /\ Len(<<a>> \o <<b, c>>) = 3
  BY <1>1
<1>3. \A i \in 1..3 : (<<a>> \o <<b, c>>)[i] = <<a, b, c>>[i]
  BY <1>1
<1> QED
  BY <1>1, <1>2, <1>3, SameList

LEMMA Joined21 ==
    ASSUME NEW a, NEW b, NEW c
    PROVE  <<a, b>> \o <<c>> = <<a, b, c>>
<1> DEFINE S == {a, b, c}
<1>1. <<a, b>> \in Seq(S) /\ <<c>> \in Seq(S) /\ <<a, b, c>> \in Seq(S) /\ Len(<<a, b, c>>) = 3
  OBVIOUS
<1>2. <<a, b>> \o <<c>> \in Seq(S) /\ Len(<<a, b>> \o <<c>>) = 3
  BY <1>1
<1>3. \A i \in 1..3 : (<<a, b>> \o <<c>>)[i] = <<a, b, c>>[i]
  BY <1>1
<1> QED
  BY <1>1, <1>2, <1>3, SameList

LEMMA Joined31 ==
    ASSUME NEW a, NEW b, NEW c, NEW d
    PROVE  <<a, b, c>> \o <<d>> = <<a, b, c, d>>
<1> DEFINE S == {a, b, c, d}
<1>1. <<a, b, c>> \in Seq(S) /\ <<d>> \in Seq(S) /\ <<a, b, c, d>> \in Seq(S) /\ Len(<<a, b, c, d>>) = 4
  OBVIOUS
<1>2. <<a, b, c>> \o <<d>> \in Seq(S) /\ Len(<<a, b, c>> \o <<d>>) = 4
  BY <1>1
<1>3. \A i \in 1..4 : (<<a, b, c>> \o <<d>>)[i] = <<a, b, c, d>>[i]
  BY <1>1
<1> QED
  BY <1>1, <1>2, <1>3, SameList

LEMMA Joined22 ==
    ASSUME NEW a, NEW b, NEW c, NEW d
    PROVE  <<a, b>> \o <<c, d>> = <<a, b, c, d>>
<1> DEFINE S == {a, b, c, d}
<1>1. <<a, b>> \in Seq(S) /\ <<c, d>> \in Seq(S) /\ <<a, b, c, d>> \in Seq(S) /\ Len(<<a, b, c, d>>) = 4
  OBVIOUS
<1>2. <<a, b>> \o <<c, d>> \in Seq(S) /\ Len(<<a, b>> \o <<c, d>>) = 4
  BY <1>1
<1>3. \A i \in 1..4 : (<<a, b>> \o <<c, d>>)[i] = <<a, b, c, d>>[i]
  BY <1>1
<1> QED
  BY <1>1, <1>2, <1>3, SameList

LEMMA ReplaceBegins ==
    ASSUME EngineInv, NEW i \in Ids, NEW r \in EntryRow, r.ver = writes + 1,
           i \in EntryIds => /\ r.text \in Contents /\ r.domain \in Domains
                             /\ entry[i].ver > 0 /\ sig[r.domain][r.text] = i,
           Begin(ReplaceCalls(i, r), ReplaceUndo(i))
    PROVE  EngineInv'
<1> DEFINE job == [kind |-> "replace", id |-> i, row |-> r, out |-> NoId, p |-> 0]
<1>0. PICK cs, us : cs = ReplaceCalls(i, r) /\ us = ReplaceUndo(i)
  OBVIOUS
<1>1. job \in Jobs
  BY DEF Jobs
<1>2. job.kind = "replace" /\ job.id = i /\ job.row = r /\ job.out = NoId /\ job.p = 0
  OBVIOUS
<1>3. Begin(cs, us)
  BY <1>0
<1>4. /\ mode = "idle" /\ writes' = writes + 1 /\ before' = <<entry, emb, node, sig>>
  BY <1>3 DEF Begin
<1>5. OldEntry' = entry /\ OldEmb' = emb /\ OldNode' = node /\ OldSig' = sig
  BY <1>4 DEF OldEntry, OldEmb, OldNode, OldSig
<1>6. entry[i] \in EntryRow /\ emb[i] \in Nat
  BY <1>4 DEF EngineInv, AtRest, StoresTyped
<1>7. cs = <<Must("row", i, r), Must("emb", i, r.ver), Must("node", i, r.ver)>>
  BY <1>0 DEF ReplaceCalls
<1>8. us = <<<<>>, <<Try("row", i, entry[i])>>,
             <<Try("row", i, entry[i]), Try("emb", i, emb[i]), Try("node", i, emb[i])>>>>
  <2> DEFINE A == Try("row", i, entry[i])
             B == Try("emb", i, emb[i])
             C == Try("node", i, emb[i])
             D == IF emb[i] > 0 THEN <<Try("emb", i, emb[i]), Try("node", i, emb[i])>>
                  ELSE <<Try("emb", i, 0), Try("node", i, 0)>>
  <2>1. D = <<B, C>>
    <3>1. CASE emb[i] > 0
      BY <3>1
    <3>2. CASE ~(emb[i] > 0)
      <4>1. emb[i] = 0
        BY <3>2, <1>6
      <4> QED
        BY <3>2, <4>1
    <3> QED
      BY <3>1, <3>2
  <2>2. us = <<<<>>, <<A>>, <<A>> \o D>>
    BY <1>0 DEF ReplaceUndo
  <2> HIDE DEF A, B, C, D
  <2>3. <<A>> \o D = <<A, B, C>>
    BY <2>1, Joined12
  <2>4. us = <<<<>>, <<A>>, <<A, B, C>>>>
    BY <2>2, <2>3
  <2> QED
    BY <2>4 DEF A, B, C
<1> HIDE DEF job
<1>9. JobFits(job)'
  BY <1>2, <1>4, <1>5, IdsApart DEF JobFits, OldPresent
<1>10. JobLen(job) = 3 /\ BackLen(job)' = 0
  BY <1>2 DEF JobLen, BackLen
<1>11. Must("row", i, r) \in EngineCall /\ Must("emb", i, r.ver) \in EngineCall /\ Must("node", i, r.ver) \in EngineCall
  BY ValTyped, CallTyped
<1>12. /\ Try("row", i, entry[i]) \in EngineCall
       /\ Try("emb", i, emb[i]) \in EngineCall /\ Try("node", i, emb[i]) \in EngineCall
  <2>1. emb[i] \in EngineVal /\ entry[i] \in EngineVal
    BY <1>6 DEF EngineVal
  <2> QED
    BY <2>1, CallTyped
<1>13. cs \in Seq(EngineCall) /\ Len(cs) = 3
  BY <1>7, <1>11
<1>14. us \in Seq(Seq(EngineCall)) /\ Len(us) = 3
  <2>1. <<>> \in Seq(EngineCall) /\ <<Try("row", i, entry[i])>> \in Seq(EngineCall)
    BY <1>12
  <2>2. <<Try("row", i, entry[i]), Try("emb", i, emb[i]), Try("node", i, emb[i])>> \in Seq(EngineCall)
    BY <1>12
  <2> QED
    BY <1>8, <2>1, <2>2
<1>15. ASSUME NEW c \in 1..3 PROVE cs[c] = JobCall(job, c)'
  <2>1. ~(c <= 0) /\ c - 0 = c /\ c \in {1, 2, 3}
    OBVIOUS
  <2> QED
    BY <2>1, <1>2, <1>7 DEF JobCall, InCall
<1>16. ASSUME NEW c \in 1..3 PROVE IsUndo(us[c], job, c)'
  <2>0. ~(c <= job.p)
    BY <1>2
  <2>1. CASE c = 1
    <3>1. us[c] = <<>> /\ UndoLen(job, c)' = 0
      BY <2>0, <2>1, <1>2, <1>8 DEF UndoLen
    <3> QED
      BY <3>1, <2>1, <1>8 DEF IsUndo
  <2>2. CASE c = 2
    <3>1. us[c] = <<Try("row", i, entry[i])>> /\ UndoLen(job, c)' = 1
      BY <2>0, <2>2, <1>2, <1>8 DEF UndoLen
    <3>2. UndoCall(job, c, 1)' = Try("row", i, entry[i])
      BY <2>2, <1>2, <1>5 DEF UndoCall, UnreplaceCall
    <3> QED
      BY <3>1, <3>2 DEF IsUndo
  <2>3. CASE c = 3
    <3>1. us[c] = <<Try("row", i, entry[i]), Try("emb", i, emb[i]), Try("node", i, emb[i])>> /\ UndoLen(job, c)' = 3
      BY <2>0, <2>3, <1>2, <1>8 DEF UndoLen
    <3>2. /\ UndoCall(job, c, 3)' = Try("row", i, entry[i])
          /\ UndoCall(job, c, 2)' = Try("emb", i, emb[i])
          /\ UndoCall(job, c, 1)' = Try("node", i, emb[i])
      BY <2>3, <1>2, <1>5 DEF UndoCall, UnreplaceCall
    <3>3. \A b \in 1..3 : us[c][b] = UndoCall(job, c, 3 - b + 1)'
      <4>1. us[c][1] = UndoCall(job, c, 3)' /\ us[c][2] = UndoCall(job, c, 2)' /\ us[c][3] = UndoCall(job, c, 1)'
        BY <3>1, <3>2
      <4>2. 3 - 1 + 1 = 3 /\ 3 - 2 + 1 = 2 /\ 3 - 3 + 1 = 1 /\ \A b \in 1..3 : b = 1 \/ b = 2 \/ b = 3
        OBVIOUS
      <4> QED
        BY <4>1, <4>2
    <3>4. Len(us[c]) = 3
      BY <3>1
    <3> QED
      BY <3>1, <3>3, <3>4 DEF IsUndo
  <2> QED
    BY <2>1, <2>2, <2>3
<1> QED
  BY <1>1, <1>3, <1>9, <1>10, <1>13, <1>14, <1>15, <1>16, Begins

\* The calls that take an entry out.
LEMMA ForgetList ==
    ASSUME EngineInv, mode = "idle", NEW e \in Ids, entry[e].ver > 0, before' = <<entry, emb, node, sig>>,
           NEW job \in Jobs, job.out = e,
           job.p = IF e \in EntryIds /\ sig[entry[e].domain][entry[e].text] = e THEN 4 ELSE 3
    PROVE  /\ ForgetCalls(e) \in Seq(EngineCall) /\ Len(ForgetCalls(e)) = job.p
           /\ \A c \in 1..job.p : ForgetCalls(e)[c] = JobCall(job, c)'
<1>1. OldEntry' = entry
  BY DEF OldEntry
<1>2. OldKey(e)' = Sig(entry[e])
  BY <1>1 DEF OldKey
<1>3. entry[e] \in EntryRow
  BY DEF EngineInv, AtRest, StoresTyped
<1> DEFINE a == Must("node", e, 0)
           b == Must("emb", e, 0)
           s == Must("sig", e, [key |-> Sig(entry[e]), to |-> NoId])
           r == Must("row", e, NoRow)
           C == Present(e) /\ e \in EntryIds /\ sig[entry[e].domain][entry[e].text] = e
<1>4. a \in EngineCall /\ b \in EngineCall /\ s \in EngineCall /\ r \in EngineCall
  <2>1. NoId \in Ids \cup {NoId} /\ 0 \in EngineVal /\ NoRow \in EngineVal
    BY <1>3, ValTyped
  <2>2. [key |-> Sig(entry[e]), to |-> NoId] \in EngineVal
    BY <1>3, ValTyped
  <2> QED
    BY <2>1, <2>2, CallTyped
<1>5. ForgetCalls(e) = (<<a, b>> \o (IF C THEN <<s>> ELSE <<>>)) \o <<r>>
  BY DEF ForgetCalls
<1>6. C <=> job.p = 4
  BY DEF Present
<1>7. OutCall(job, 1)' = a /\ OutCall(job, 2)' = b /\ job.p \in {3, 4}
  BY DEF OutCall
<1>8. OutCall(job, job.p)' = r
  BY <1>7 DEF OutCall
<1>9. job.p = 4 => OutCall(job, 3)' = s
  BY <1>2 DEF OutCall
<1>10. \A c \in 1..job.p : JobCall(job, c)' = OutCall(job, c)'
  BY <1>7 DEF JobCall
<1> HIDE DEF a, b, s, r, C
<1>11. CASE C
  <2>1. ForgetCalls(e) = <<a, b, s, r>> /\ job.p = 4
    <3>1. ForgetCalls(e) = (<<a, b>> \o <<s>>) \o <<r>>
      BY <1>5, <1>11
    <3>2. <<a, b>> \o <<s>> = <<a, b, s>> /\ <<a, b, s>> \o <<r>> = <<a, b, s, r>>
      BY Joined21, Joined31
    <3> QED
      BY <3>1, <3>2, <1>6, <1>11
  <2>2. \A c \in 1..4 : c = 1 \/ c = 2 \/ c = 3 \/ c = 4
    OBVIOUS
  <2>3. <<a, b, s, r>> \in Seq(EngineCall) /\ Len(<<a, b, s, r>>) = 4
    BY <1>4
  <2>4. \A c \in 1..job.p : ForgetCalls(e)[c] = OutCall(job, c)'
    BY <2>1, <2>2, <1>7, <1>8, <1>9
  <2> QED
    BY <2>1, <2>3, <2>4, <1>10
<1>12. CASE ~C
  <2>1. ForgetCalls(e) = <<a, b, r>> /\ job.p = 3
    <3>1. ForgetCalls(e) = (<<a, b>> \o <<>>) \o <<r>>
      BY <1>5, <1>12
    <3>2. <<a, b>> \o <<>> = <<a, b>> /\ <<a, b>> \o <<r>> = <<a, b, r>>
      BY Joined21
    <3>3. job.p = 3
      BY <1>6, <1>7, <1>12
    <3> QED
      BY <3>1, <3>2, <3>3
  <2>2. \A c \in 1..3 : c = 1 \/ c = 2 \/ c = 3
    OBVIOUS
  <2>3. <<a, b, r>> \in Seq(EngineCall) /\ Len(<<a, b, r>>) = 3
    BY <1>4
  <2>4. \A c \in 1..job.p : ForgetCalls(e)[c] = OutCall(job, c)'
    BY <2>1, <2>2, <1>7, <1>8
  <2> QED
    BY <2>1, <2>3, <2>4, <1>10
<1> QED
  BY <1>11, <1>12

LEMMA NoUndoList ==
    ASSUME NEW n \in Nat
    PROVE  NoUndo(n) \in Seq(Seq(EngineCall)) /\ Len(NoUndo(n)) = n /\ \A c \in 1..n : NoUndo(n)[c] = <<>>
<1>1. <<>> \in Seq(EngineCall)
  OBVIOUS
<1>2. NoUndo(n) = [c \in 1..n |-> <<>>]
  BY DEF NoUndo
<1>3. NoUndo(n) \in [1..n -> Seq(EngineCall)]
  BY <1>1, <1>2
<1>4. NoUndo(n) \in Seq(Seq(EngineCall)) /\ Len(NoUndo(n)) = n
  BY <1>3
<1> QED
  BY <1>2, <1>4

LEMMA ForgetBegins ==
    ASSUME EngineInv, NEW e \in Ids, forget(e)
    PROVE  EngineInv'
<1>1. PICK cs, us : cs = ForgetCalls(e) /\ us = NoUndo(Len(ForgetCalls(e))) /\ Begin(cs, us)
  BY DEF forget
<1>2. entry[e].ver > 0
  BY DEF forget, Present
<1>3. mode = "idle" /\ writes' = writes + 1 /\ before' = <<entry, emb, node, sig>> /\ writes \in Nat
  BY <1>1, IdsApart DEF Begin, EngineInv
<1>4. OldEntry' = entry /\ OldEmb' = emb /\ OldNode' = node /\ OldSig' = sig
  BY <1>3 DEF OldEntry, OldEmb, OldNode, OldSig
<1>5. PICK w : w = writes + 1
  OBVIOUS
<1>6. PICK pp \in {3, 4} : pp = IF e \in EntryIds /\ sig[entry[e].domain][entry[e].text] = e THEN 4 ELSE 3
  OBVIOUS
<1> DEFINE row == [text |-> NoText, domain |-> NoText, ver |-> w]
           job == [kind |-> "forget", id |-> NoId, row |-> row, out |-> e, p |-> pp]
<1>7. row \in EntryRow /\ row.ver = w
  BY <1>3, <1>5 DEF EntryRow
<1> HIDE DEF row
<1>8. job \in Jobs
  BY <1>7 DEF Jobs
<1>9. job.kind = "forget" /\ job.id = NoId /\ job.row = row /\ job.out = e /\ job.p = pp
  OBVIOUS
<1> HIDE DEF job
<1>10. JobFits(job)'
  BY <1>2, <1>3, <1>4, <1>5, <1>6, <1>7, <1>9, IdsApart DEF JobFits, OldPresent
<1>11. /\ cs \in Seq(EngineCall) /\ Len(cs) = pp /\ \A c \in 1..pp : cs[c] = JobCall(job, c)'
  BY <1>1, <1>2, <1>3, <1>6, <1>8, <1>9, ForgetList
<1>12. us \in Seq(Seq(EngineCall)) /\ Len(us) = pp /\ \A c \in 1..pp : us[c] = <<>>
  <2>1. pp \in Nat /\ us = NoUndo(pp)
    BY <1>1, <1>11
  <2> QED
    BY <2>1, NoUndoList
<1>13. JobLen(job) = pp
  BY <1>9 DEF JobLen
<1>14. ASSUME NEW c \in 1..pp PROVE IsUndo(us[c], job, c)'
  <2>1. UndoLen(job, c)' = 0
    BY <1>9 DEF UndoLen
  <2>2. us[c] = <<>> /\ Len(<<>>) = 0
    BY <1>12
  <2> QED
    BY <2>1, <2>2 DEF IsUndo
<1> QED
  BY <1>1, <1>8, <1>10, <1>11, <1>12, <1>13, <1>14, Begins

\* The calls that bring an evicted entry back.
LEMMA RestoreList ==
    ASSUME EngineInv, mode = "idle", NEW e \in EntryIds, before' = <<entry, emb, node, sig>>,
           NEW job \in Jobs, job.out = e, NEW R, R = RestoreEvicted(e)
    PROVE  /\ R \in Seq(EngineCall) /\ Len(R) = BackLen(job)'
           /\ \A c \in 1..Len(R) : R[c] = BackCall(job, Len(R) - c + 1)'
<1>1. OldEntry' = entry /\ OldEmb' = emb
  BY DEF OldEntry, OldEmb
<1>2. OldKey(e)' = Sig(entry[e]) /\ e \in Ids /\ e # NoId
  BY <1>1, IdsApart DEF OldKey
<1>3. entry[e] \in EntryRow /\ emb[e] \in Nat
  BY <1>2 DEF EngineInv, AtRest, StoresTyped
<1> DEFINE a == Must("row", e, entry[e])
           b == Try("slot", e, [key |-> Sig(entry[e]), to |-> e])
           c3 == Must("emb", e, emb[e])
           d == Try("node", e, emb[e])
<1>4. a \in EngineCall /\ b \in EngineCall /\ c3 \in EngineCall /\ d \in EngineCall
  <2>1. entry[e] \in EngineVal /\ [key |-> Sig(entry[e]), to |-> e] \in EngineVal
    BY <1>2, <1>3, ValTyped
  <2>2. emb[e] \in EngineVal
    BY <1>3 DEF EngineVal
  <2> QED
    BY <2>1, <2>2, <1>2, CallTyped
<1>5. R = <<a, b>> \o (IF emb[e] = 0 THEN <<>> ELSE <<c3, d>>)
  BY DEF RestoreEvicted
<1>6. BackLen(job)' = IF emb[e] = 0 THEN 2 ELSE 4
  BY <1>1, <1>2 DEF BackLen
<1>7. CASE emb[e] = 0
  <2>1. BackLen(job)' = 2
    BY <1>6, <1>7
  <2>2. BackCall(job, 2)' = a /\ BackCall(job, 1)' = b
    BY <2>1, <1>1, <1>2 DEF BackCall
  <2> HIDE DEF a, b, c3, d
  <2>3. R = <<a, b>>
    <3>1. R = <<a, b>> \o <<>>
      BY <1>5, <1>7
    <3> QED
      BY <3>1
  <2>4. <<a, b>> \in Seq(EngineCall) /\ Len(<<a, b>>) = 2
    BY <1>4
  <2>5. \A c \in 1..2 : <<a, b>>[c] = BackCall(job, 2 - c + 1)'
    <3>1. 2 - 1 + 1 = 2 /\ 2 - 2 + 1 = 1 /\ \A c \in 1..2 : c = 1 \/ c = 2
      OBVIOUS
    <3> QED
      BY <3>1, <2>2
  <2>6. Len(R) = 2 /\ R \in Seq(EngineCall)
    BY <2>3, <2>4
  <2>7. \A c \in 1..2 : R[c] = BackCall(job, 2 - c + 1)'
    BY <2>3, <2>5
  <2> QED
    BY <2>1, <2>6, <2>7
<1>8. CASE emb[e] # 0
  <2>1. BackLen(job)' = 4
    BY <1>6, <1>8
  <2>2. BackCall(job, 4)' = a /\ BackCall(job, 3)' = b /\ BackCall(job, 2)' = c3 /\ BackCall(job, 1)' = d
    BY <2>1, <1>1, <1>2 DEF BackCall
  <2> HIDE DEF a, b, c3, d
  <2>3. R = <<a, b, c3, d>>
    <3>1. R = <<a, b>> \o <<c3, d>>
      BY <1>5, <1>8
    <3> QED
      BY <3>1, Joined22
  <2>4. <<a, b, c3, d>> \in Seq(EngineCall) /\ Len(<<a, b, c3, d>>) = 4
    BY <1>4
  <2>5. \A c \in 1..4 : <<a, b, c3, d>>[c] = BackCall(job, 4 - c + 1)'
    <3>1. 4 - 1 + 1 = 4 /\ 4 - 2 + 1 = 3 /\ 4 - 3 + 1 = 2 /\ 4 - 4 + 1 = 1
          /\ \A c \in 1..4 : c = 1 \/ c = 2 \/ c = 3 \/ c = 4
      OBVIOUS
    <3> QED
      BY <3>1, <2>2
  <2>6. Len(R) = 4 /\ R \in Seq(EngineCall)
    BY <2>3, <2>4
  <2>7. \A c \in 1..4 : R[c] = BackCall(job, 4 - c + 1)'
    BY <2>3, <2>5
  <2> QED
    BY <2>1, <2>6, <2>7
<1> QED
  BY <1>7, <1>8

LEMMA JoinedList ==
    ASSUME NEW S, NEW s \in Seq(S), NEW t \in Seq(S)
    PROVE  /\ s \o t \in Seq(S) /\ Len(s \o t) = Len(s) + Len(t)
           /\ \A c \in 1..(Len(s) + Len(t)) : (s \o t)[c] = IF c <= Len(s) THEN s[c] ELSE t[c - Len(s)]
<1>1. s \o t \in Seq(S) /\ Len(s \o t) = Len(s) + Len(t) /\ Len(s) \in Nat /\ Len(t) \in Nat
  OBVIOUS
<1>2. ASSUME NEW c \in 1..(Len(s) + Len(t))
      PROVE  (s \o t)[c] = IF c <= Len(s) THEN s[c] ELSE t[c - Len(s)]
  BY <1>1
<1> QED
  BY <1>1, <1>2

LEMMA Counted ==
    \A e, u \in Nat : \A c \in 1..(e + u) :
        /\ c <= e => c \in 1..e /\ ~((e + u) - c + 1 <= u) /\ ((e + u) - c + 1) - u = e - c + 1
        /\ ~(c <= e) => (e + u) - c + 1 <= u /\ u - (c - e) + 1 = (e + u) - c + 1 /\ c - e \in 1..u
  OBVIOUS

\* Dropping the new entry comes before bringing the old one back.
LEMMA DropThenBack ==
    ASSUME NEW job \in Jobs, job.kind = "create", NEW m \in Nat, m > job.p, NEW e \in Nat,
           e = IF m - job.p = 4 THEN 4 ELSE m - job.p - 1,
           NEW D \in Seq(EngineCall), Len(D) = e, \A c \in 1..e : D[c] = DropCall(job, e - c + 1),
           NEW R \in Seq(EngineCall), Len(R) = BackLen(job)',
           \A c \in 1..Len(R) : R[c] = BackCall(job, Len(R) - c + 1)'
    PROVE  IsUndo(D \o R, job, m)' /\ D \o R \in Seq(EngineCall)
<1>0. job.p \in Nat /\ ~(m <= job.p) /\ Len(R) \in Nat
  <2>1. job.p \in Nat
    BY JobShape
  <2> QED
    BY <2>1
<1>1. UndoLen(job, m)' = BackLen(job)' + e
  BY <1>0 DEF UndoLen
<1>2. /\ D \o R \in Seq(EngineCall) /\ Len(D \o R) = Len(D) + Len(R)
      /\ \A c \in 1..(Len(D) + Len(R)) : (D \o R)[c] = IF c <= Len(D) THEN D[c] ELSE R[c - Len(D)]
  BY JoinedList, Zenon
<1>s. PICK s : s = D \o R
  OBVIOUS
<1>3. PICK u \in Nat : u = Len(R)
  BY <1>0
<1>4. Len(s) = e + u /\ UndoLen(job, m)' = e + u /\ u = BackLen(job)'
  <2>1. Len(s) = e + u
    BY <1>s, <1>2, <1>3
  <2>2. u = BackLen(job)'
    BY <1>3
  <2> QED
    BY <2>1, <2>2, <1>1
<1>5. ASSUME NEW c \in 1..(e + u) PROVE s[c] = UndoCall(job, m, (e + u) - c + 1)'
  <2>0. s[c] = IF c <= e THEN D[c] ELSE R[c - e]
    BY <1>s, <1>2, <1>3, <1>5
  <2>c. /\ c <= e => c \in 1..e /\ ~((e + u) - c + 1 <= u) /\ ((e + u) - c + 1) - u = e - c + 1
        /\ ~(c <= e) => (e + u) - c + 1 <= u /\ u - (c - e) + 1 = (e + u) - c + 1 /\ c - e \in 1..u
    BY Counted, Zenon
  <2>1. CASE c <= e
    <3>1. c \in 1..e /\ ~((e + u) - c + 1 <= u) /\ ((e + u) - c + 1) - u = e - c + 1
      BY <2>1, <2>c
    <3>2. UndoCall(job, m, (e + u) - c + 1)' = DropCall(job, ((e + u) - c + 1) - u)
      BY <3>1, <1>4 DEF UndoCall, DropCall
    <3> QED
      BY <3>1, <3>2, <2>0, <2>1
  <2>2. CASE ~(c <= e)
    <3>1. (e + u) - c + 1 <= u /\ u - (c - e) + 1 = (e + u) - c + 1 /\ c - e \in 1..u
      BY <2>2, <2>c
    <3>2. UndoCall(job, m, (e + u) - c + 1)' = BackCall(job, (e + u) - c + 1)'
      BY <3>1, <1>4 DEF UndoCall
    <3>4. R[c - e] = BackCall(job, u - (c - e) + 1)'
      BY <3>1, <1>3
    <3> QED
      BY <3>1, <3>2, <3>4, <2>0, <2>2
  <2> QED
    BY <2>1, <2>2
<1>6. IsUndo(s, job, m)'
  BY <1>4, <1>5 DEF IsUndo
<1> QED
  BY <1>s, <1>2, <1>6

LEMMA Rest4 == \A a, c \in Nat : ~(c <= a) /\ c <= a + 4 => c - a \in 1..4 /\ c = a + (c - a)
  OBVIOUS

LEMMA CreateBegins ==
    ASSUME EngineInv, NEW job \in Jobs, job.kind = "create", JobFits(job)',
           NEW F \in Seq(EngineCall), Len(F) = job.p, \A c \in 1..job.p : F[c] = JobCall(job, c)',
           NEW R \in Seq(EngineCall), Len(R) = BackLen(job)',
           \A c \in 1..Len(R) : R[c] = BackCall(job, Len(R) - c + 1)',
           NEW U \in Seq(Seq(EngineCall)), Len(U) = job.p, \A c \in 1..job.p : U[c] = <<>>,
           Begin(F \o CreateCalls(job.id, job.row), U \o CreateUndo(job.id, job.row, R))
    PROVE  EngineInv'
<1> DEFINE i == job.id
           r == job.row
           a1 == Try("row", i, NoRow)
           a2 == Try("emb", i, 0)
           a3 == Try("sig", i, [key |-> Sig(r), to |-> NoId])
           a4 == Try("node", i, 0)
           C == CreateCalls(i, r)
           V == CreateUndo(i, r, R)
<1>0. /\ i \in EntryIds /\ i \in Ids /\ r \in EntryRow /\ job.p \in {0, 3, 4} /\ job.p \in Nat
      /\ JobLen(job) = job.p + 4
  BY IdsApart, JobShape DEF JobFits
<1>1. /\ Must("row", i, r) \in EngineCall /\ Must("emb", i, r.ver) \in EngineCall
      /\ Must("sig", i, [key |-> Sig(r), to |-> i]) \in EngineCall /\ Must("node", i, r.ver) \in EngineCall
  BY <1>0, ValTyped, CallTyped
<1>2. a1 \in EngineCall /\ a2 \in EngineCall /\ a3 \in EngineCall /\ a4 \in EngineCall
  <2>1. NoRow \in EngineVal /\ 0 \in EngineVal /\ [key |-> Sig(r), to |-> NoId] \in EngineVal
    BY <1>0, ValTyped
  <2> QED
    BY <2>1, <1>0, CallTyped
<1>3. /\ C \in Seq(EngineCall) /\ Len(C) = 4
      /\ C[1] = Must("row", i, r) /\ C[2] = Must("emb", i, r.ver)
      /\ C[3] = Must("sig", i, [key |-> Sig(r), to |-> i]) /\ C[4] = Must("node", i, r.ver)
  BY <1>1 DEF CreateCalls
<1>4. /\ DropCall(job, 1) = a1 /\ DropCall(job, 2) = a2 /\ DropCall(job, 3) = a3 /\ DropCall(job, 4) = a4
  BY DEF DropCall
<1>5. V = <<R, <<a1>> \o R, <<a2, a1>> \o R, <<a4, a3, a2, a1>> \o R>>
  BY DEF CreateUndo
<1>6. ASSUME NEW c \in 1..4 PROVE C[c] = JobCall(job, job.p + c)'
  <2>1. ~(job.p + c <= job.p) /\ (job.p + c) - job.p = c
    BY <1>0
  <2>2. JobCall(job, job.p + c)' = InCall(job, c)'
    BY <2>1 DEF JobCall
  <2>3. c = 1 \/ c = 2 \/ c = 3 \/ c = 4
    OBVIOUS
  <2> QED
    BY <2>2, <2>3, <1>3 DEF InCall
<1> HIDE DEF a1, a2, a3, a4, C, V
<1>7. V \in Seq(Seq(EngineCall)) /\ Len(V) = 4 /\ \A c \in 1..4 : IsUndo(V[c], job, job.p + c)'
  <2>0. <<>> \o R = R
    OBVIOUS
  <2>1. IsUndo(<<>> \o R, job, job.p + 1)' /\ <<>> \o R \in Seq(EngineCall)
    <3>a. PICK D : D = <<>>
      OBVIOUS
    <3>m. PICK m : m = job.p + 1
      OBVIOUS
    <3>1. D \in Seq(EngineCall) /\ Len(D) = 0
      BY <3>a
    <3>2. m \in Nat /\ m > job.p /\ 0 = (IF m - job.p = 4 THEN 4 ELSE m - job.p - 1)
      BY <3>m, <1>0
    <3>3. \A c \in 1..0 : D[c] = DropCall(job, 0 - c + 1)
      OBVIOUS
    <3>4. 0 \in Nat
      OBVIOUS
    <3>5. IsUndo(D \o R, job, m)' /\ D \o R \in Seq(EngineCall)
      BY <3>1, <3>2, <3>3, <3>4, DropThenBack
    <3> QED
      BY <3>5, <3>a, <3>m
  <2>2. IsUndo(<<a1>> \o R, job, job.p + 2)' /\ <<a1>> \o R \in Seq(EngineCall)
    <3>a. PICK D : D = <<a1>>
      OBVIOUS
    <3>m. PICK m : m = job.p + 2
      OBVIOUS
    <3>1. D \in Seq(EngineCall) /\ Len(D) = 1 /\ D[1] = a1
      BY <3>a, <1>2
    <3>2. m \in Nat /\ m > job.p /\ 1 = (IF m - job.p = 4 THEN 4 ELSE m - job.p - 1)
      BY <3>m, <1>0
    <3>3. \A c \in 1..1 : D[c] = DropCall(job, 1 - c + 1)
      <4>1. 1 - 1 + 1 = 1
            /\ \A c \in 1..1 : c = 1
        OBVIOUS
      <4> QED
        BY <4>1, <3>a, <3>1, <1>4
    <3>4. 1 \in Nat
      OBVIOUS
    <3>5. IsUndo(D \o R, job, m)' /\ D \o R \in Seq(EngineCall)
      BY <3>1, <3>2, <3>3, <3>4, DropThenBack
    <3> QED
      BY <3>5, <3>a, <3>m
  <2>3. IsUndo(<<a2, a1>> \o R, job, job.p + 3)' /\ <<a2, a1>> \o R \in Seq(EngineCall)
    <3>a. PICK D : D = <<a2, a1>>
      OBVIOUS
    <3>m. PICK m : m = job.p + 3
      OBVIOUS
    <3>1. D \in Seq(EngineCall) /\ Len(D) = 2 /\ D[1] = a2 /\ D[2] = a1
      BY <3>a, <1>2
    <3>2. m \in Nat /\ m > job.p /\ 2 = (IF m - job.p = 4 THEN 4 ELSE m - job.p - 1)
      BY <3>m, <1>0
    <3>3. \A c \in 1..2 : D[c] = DropCall(job, 2 - c + 1)
      <4>1. 2 - 1 + 1 = 2 /\ 2 - 2 + 1 = 1
            /\ \A c \in 1..2 : c = 1 \/ c = 2
        OBVIOUS
      <4> QED
        BY <4>1, <3>a, <3>1, <1>4
    <3>4. 2 \in Nat
      OBVIOUS
    <3>5. IsUndo(D \o R, job, m)' /\ D \o R \in Seq(EngineCall)
      BY <3>1, <3>2, <3>3, <3>4, DropThenBack
    <3> QED
      BY <3>5, <3>a, <3>m
  <2>4. IsUndo(<<a4, a3, a2, a1>> \o R, job, job.p + 4)' /\ <<a4, a3, a2, a1>> \o R \in Seq(EngineCall)
    <3>a. PICK D : D = <<a4, a3, a2, a1>>
      OBVIOUS
    <3>m. PICK m : m = job.p + 4
      OBVIOUS
    <3>1. D \in Seq(EngineCall) /\ Len(D) = 4 /\ D[1] = a4 /\ D[2] = a3 /\ D[3] = a2 /\ D[4] = a1
      BY <3>a, <1>2
    <3>2. m \in Nat /\ m > job.p /\ 4 = (IF m - job.p = 4 THEN 4 ELSE m - job.p - 1)
      BY <3>m, <1>0
    <3>3. \A c \in 1..4 : D[c] = DropCall(job, 4 - c + 1)
      <4>1. 4 - 1 + 1 = 4 /\ 4 - 2 + 1 = 3 /\ 4 - 3 + 1 = 2 /\ 4 - 4 + 1 = 1
            /\ \A c \in 1..4 : c = 1 \/ c = 2 \/ c = 3 \/ c = 4
        OBVIOUS
      <4> QED
        BY <4>1, <3>a, <3>1, <1>4
    <3>4. 4 \in Nat
      OBVIOUS
    <3>5. IsUndo(D \o R, job, m)' /\ D \o R \in Seq(EngineCall)
      BY <3>1, <3>2, <3>3, <3>4, DropThenBack
    <3> QED
      BY <3>5, <3>a, <3>m
  <2>5. PICK v1, v2, v3, v4 : v1 = R /\ v2 = <<a1>> \o R /\ v3 = <<a2, a1>> \o R /\ v4 = <<a4, a3, a2, a1>> \o R
    OBVIOUS
  <2>6. V = <<v1, v2, v3, v4>>
    BY <1>5, <2>5
  <2>7. /\ v1 \in Seq(EngineCall) /\ v2 \in Seq(EngineCall) /\ v3 \in Seq(EngineCall) /\ v4 \in Seq(EngineCall)
    BY <2>2, <2>3, <2>4, <2>5
  <2>8. /\ IsUndo(v1, job, job.p + 1)' /\ IsUndo(v2, job, job.p + 2)'
        /\ IsUndo(v3, job, job.p + 3)' /\ IsUndo(v4, job, job.p + 4)'
    BY <2>0, <2>1, <2>2, <2>3, <2>4, <2>5
  <2>9. V \in Seq(Seq(EngineCall)) /\ Len(V) = 4
    BY <2>6, <2>7
  <2>10. V[1] = v1 /\ V[2] = v2 /\ V[3] = v3 /\ V[4] = v4
    BY <2>6
  <2>11. \A c \in 1..4 : c = 1 \/ c = 2 \/ c = 3 \/ c = 4
    OBVIOUS
  <2> QED
    BY <2>8, <2>9, <2>10, <2>11
<1>8. PICK cs : cs = F \o C
  OBVIOUS
<1>9. PICK us : us = U \o V
  OBVIOUS
<1>10. Begin(cs, us)
  BY <1>8, <1>9 DEF C, V
<1>11. /\ cs \in Seq(EngineCall) /\ Len(cs) = job.p + 4
       /\ \A c \in 1..(job.p + 4) : cs[c] = IF c <= job.p THEN F[c] ELSE C[c - job.p]
  <2>1. /\ F \o C \in Seq(EngineCall) /\ Len(F \o C) = Len(F) + Len(C)
        /\ \A c \in 1..(Len(F) + Len(C)) : (F \o C)[c] = IF c <= Len(F) THEN F[c] ELSE C[c - Len(F)]
    BY <1>3, JoinedList, Zenon
  <2> QED
    BY <2>1, <1>3, <1>8
<1>12. /\ us \in Seq(Seq(EngineCall)) /\ Len(us) = job.p + 4
       /\ \A c \in 1..(job.p + 4) : us[c] = IF c <= job.p THEN U[c] ELSE V[c - job.p]
  <2>1. /\ U \o V \in Seq(Seq(EngineCall)) /\ Len(U \o V) = Len(U) + Len(V)
        /\ \A c \in 1..(Len(U) + Len(V)) : (U \o V)[c] = IF c <= Len(U) THEN U[c] ELSE V[c - Len(U)]
    BY <1>7, JoinedList, Zenon
  <2> QED
    BY <2>1, <1>7, <1>9
<1>13. ASSUME NEW c \in 1..(job.p + 4) PROVE cs[c] = JobCall(job, c)' /\ IsUndo(us[c], job, c)'
  <2>1. CASE c <= job.p
    <3>1. c \in 1..job.p
      BY <2>1, <1>0
    <3>2. cs[c] = JobCall(job, c)' /\ us[c] = <<>> /\ Len(<<>>) = 0
      BY <3>1, <2>1, <1>11, <1>12
    <3>3. UndoLen(job, c)' = 0
      BY <2>1 DEF UndoLen
    <3> QED
      BY <3>2, <3>3 DEF IsUndo
  <2>2. CASE ~(c <= job.p)
    <3>1. PICK b \in 1..4 : c = job.p + b /\ c - job.p = b
      <4>1. c - job.p \in 1..4 /\ c = job.p + (c - job.p)
        <5>1. c \in Nat /\ c <= job.p + 4 /\ job.p \in Nat
          BY <1>0
        <5> QED
          BY <5>1, <2>2, Rest4
      <4> QED
        BY <4>1
    <3>2. cs[c] = C[b] /\ us[c] = V[b]
      BY <3>1, <2>2, <1>11, <1>12
    <3>3. C[b] = JobCall(job, c)'
      BY <3>1, <1>6
    <3>4. PICK v : v = V[b]
      OBVIOUS
    <3>5. IsUndo(v, job, c)'
      BY <3>1, <3>4, <1>7
    <3> QED
      BY <3>2, <3>3, <3>4, <3>5
  <2> QED
    BY <2>1, <2>2
<1> QED
  BY <1>0, <1>10, <1>11, <1>12, <1>13, Begins

\* What remember_in_domain needs of a job that makes an entry.
LEMMA CreateJob ==
    ASSUME EngineInv, mode = "idle", before' = <<entry, emb, node, sig>>, writes' = writes + 1,
           NEW d \in Domains, NEW x \in Contents, ~Present(Target(d, x)),
           NEW r, r = [text |-> x, domain |-> d, ver |-> writes + 1], writes + 1 \in EntryIds,
           NEW e \in EntryIds \cup {NoId}, e \in EntryIds => entry[e].ver > 0,
           NEW pp \in {0, 3, 4},
           pp = IF e = NoId THEN 0 ELSE IF sig[entry[e].domain][entry[e].text] = e THEN 4 ELSE 3,
           NEW w, w = writes + 1,
           NEW job, job = [kind |-> "create", id |-> w, row |-> r, out |-> e, p |-> pp]
    PROVE  /\ job \in Jobs /\ JobFits(job)' /\ job.kind = "create" /\ job.id = w /\ job.row = r
           /\ job.out = e /\ job.p = pp
<1>1. OldEntry' = entry /\ OldEmb' = emb /\ OldNode' = node /\ OldSig' = sig
  BY DEF OldEntry, OldEmb, OldNode, OldSig
<1>2. r \in EntryRow /\ r.ver = w /\ r.text = x /\ r.domain = d
  BY IdsApart DEF EntryRow
<1>3. job \in Jobs
  BY <1>2, IdsApart DEF Jobs
<1>4. job.kind = "create" /\ job.id = w /\ job.row = r /\ job.out = e /\ job.p = pp
  OBVIOUS
<1>t. PICK t : t = sig[d][x]
  OBVIOUS
<1>5. ~OldPresent(t)'
  BY <1>1, <1>t DEF OldPresent, Present, Target
<1>6. ~OldPresent(OldSig[job.row.domain][job.row.text])'
  BY <1>1, <1>2, <1>4, <1>5, <1>t DEF OldPresent
<1>7. job.out \in Ids => OldPresent(job.out)'
  BY <1>1, <1>4, IdsApart DEF OldPresent
<1>8. job.p = 4 <=> job.out \in EntryIds /\ OldSig'[OldEntry'[job.out].domain][OldEntry'[job.out].text] = job.out
  BY <1>1, <1>4, IdsApart
<1>9. job.p = 0 <=> job.out = NoId
  BY <1>4
<1>10. JobFits(job)'
  BY <1>2, <1>4, <1>6, <1>7, <1>8, <1>9 DEF JobFits
<1> QED
  BY <1>3, <1>4, <1>10

LEMMA CreateStep ==
    ASSUME EngineInv, NEW d \in Domains, NEW x \in Contents, Create(d, x)
    PROVE  EngineInv'
<1>1. PICK w : w = writes + 1
  OBVIOUS
<1>2. PICK r : r = [text |-> x, domain |-> d, ver |-> w]
  OBVIOUS
<1>3. \/ Begin(CreateCalls(w, r), CreateUndo(w, r, <<>>))
      \/ \E e \in EntryIds : /\ Present(e)
                             /\ Begin(ForgetCalls(e) \o CreateCalls(w, r),
                                      NoUndo(Len(ForgetCalls(e))) \o CreateUndo(w, r, RestoreEvicted(e)))
  BY <1>1, <1>2 DEF Create
<1>4. /\ mode = "idle" /\ before' = <<entry, emb, node, sig>> /\ writes' = writes + 1
      /\ writes < MaxWrites /\ writes \in Nat
  BY <1>3, IdsApart DEF Begin, EngineInv
<1>5. writes + 1 \in EntryIds /\ ~Present(Target(d, x))
  BY <1>4, IdsApart DEF EntryIds, Create
<1>6. CASE Begin(CreateCalls(w, r), CreateUndo(w, r, <<>>))
  <2>1. PICK job : job = [kind |-> "create", id |-> w, row |-> r, out |-> NoId, p |-> 0]
    OBVIOUS
  <2>2. /\ job \in Jobs /\ JobFits(job)' /\ job.kind = "create" /\ job.id = w /\ job.row = r
        /\ job.out = NoId /\ job.p = 0
    BY <1>1, <1>2, <1>4, <1>5, <2>1, IdsApart, CreateJob
  <2>3. PICK F, R, U : F = <<>> /\ R = <<>> /\ U = <<>>
    OBVIOUS
  <2>4. F \in Seq(EngineCall) /\ R \in Seq(EngineCall) /\ U \in Seq(Seq(EngineCall)) /\ Len(F) = 0 /\ Len(R) = 0 /\ Len(U) = 0
    BY <2>3
  <2>5. CreateCalls(w, r) \in Seq({Must("row", w, r), Must("emb", w, r.ver),
                Must("sig", w, [key |-> Sig(r), to |-> w]), Must("node", w, r.ver)})
    BY DEF CreateCalls
  <2>6. PICK C, V : C = CreateCalls(w, r) /\ V = CreateUndo(w, r, R)
    OBVIOUS
  <2>7. F \o C = C
    BY <2>3, <2>5, <2>6
  <2>8. U \o V = V
    <3>1. PICK a, b, c, f : V = <<a, b, c, f>>
      BY <2>6 DEF CreateUndo
    <3>2. V \in Seq({a, b, c, f})
      BY <3>1
    <3> QED
      BY <2>3, <3>2
  <2>9. Begin(F \o CreateCalls(job.id, job.row), U \o CreateUndo(job.id, job.row, R))
    BY <1>6, <2>2, <2>3, <2>6, <2>7, <2>8
  <2>10. BackLen(job)' = 0
    BY <2>2 DEF BackLen
  <2>11. \A c \in 1..0 : FALSE
    OBVIOUS
  <2>12. (\A c \in 1..job.p : F[c] = JobCall(job, c)') /\ \A c \in 1..job.p : U[c] = <<>>
    BY <2>2, <2>11
  <2>13. \A c \in 1..Len(R) : R[c] = BackCall(job, Len(R) - c + 1)'
    BY <2>4, <2>11
  <2>14. Len(F) = job.p /\ Len(U) = job.p /\ Len(R) = BackLen(job)'
    BY <2>2, <2>4, <2>10
  <2> QED
    BY <2>2, <2>4, <2>9, <2>12, <2>13, <2>14, CreateBegins
<1>7. CASE \E e \in EntryIds : /\ Present(e)
                               /\ Begin(ForgetCalls(e) \o CreateCalls(w, r),
                                        NoUndo(Len(ForgetCalls(e))) \o CreateUndo(w, r, RestoreEvicted(e)))
  <2>1. PICK e \in EntryIds : /\ Present(e)
                              /\ Begin(ForgetCalls(e) \o CreateCalls(w, r),
                                       NoUndo(Len(ForgetCalls(e))) \o CreateUndo(w, r, RestoreEvicted(e)))
    BY <1>7
  <2>2. entry[e].ver > 0 /\ e \in Ids /\ e # NoId
    BY <2>1, IdsApart DEF Present
  <2>3. PICK pp \in {0, 3, 4} : pp = IF e = NoId THEN 0 ELSE IF sig[entry[e].domain][entry[e].text] = e THEN 4 ELSE 3
    OBVIOUS
  <2>4. PICK job : job = [kind |-> "create", id |-> w, row |-> r, out |-> e, p |-> pp]
    OBVIOUS
  <2>5. /\ job \in Jobs /\ JobFits(job)' /\ job.kind = "create" /\ job.id = w /\ job.row = r
        /\ job.out = e /\ job.p = pp
    BY <1>1, <1>2, <1>4, <1>5, <2>2, <2>3, <2>4, CreateJob
  <2>6. PICK F, R, U : F = ForgetCalls(e) /\ R = RestoreEvicted(e) /\ U = NoUndo(Len(ForgetCalls(e)))
    OBVIOUS
  <2>7. pp = IF e \in EntryIds /\ sig[entry[e].domain][entry[e].text] = e THEN 4 ELSE 3
    BY <2>2, <2>3
  <2>8. F \in Seq(EngineCall) /\ Len(F) = pp /\ \A c \in 1..pp : F[c] = JobCall(job, c)'
    BY <1>4, <2>2, <2>5, <2>6, <2>7, ForgetList
  <2>9. R \in Seq(EngineCall) /\ Len(R) = BackLen(job)' /\ \A c \in 1..Len(R) : R[c] = BackCall(job, Len(R) - c + 1)'
    BY <1>4, <2>5, <2>6, RestoreList
  <2>10. U \in Seq(Seq(EngineCall)) /\ Len(U) = pp /\ \A c \in 1..pp : U[c] = <<>>
    <3>1. U = NoUndo(pp) /\ pp \in Nat
      BY <2>6, <2>8
    <3> QED
      BY <3>1, NoUndoList
  <2>11. Begin(F \o CreateCalls(job.id, job.row), U \o CreateUndo(job.id, job.row, R))
    BY <2>1, <2>5, <2>6
  <2> QED
    BY <2>5, <2>8, <2>9, <2>10, <2>11, CreateBegins
<1> QED
  BY <1>3, <1>6, <1>7

LEMMA RefreshStep ==
    ASSUME EngineInv, NEW d \in Domains, NEW x \in Contents, Refresh(d, x)
    PROVE  EngineInv'
<1>1. PICK r, i : r = [text |-> x, domain |-> d, ver |-> writes + 1] /\ i = sig[d][x]
  OBVIOUS
<1>2. Present(i) /\ Begin(ReplaceCalls(i, r), ReplaceUndo(i))
  BY <1>1 DEF Refresh, Target
<1>3. i \in Ids /\ entry[i].ver > 0 /\ writes \in Nat
  BY <1>2, IdsApart DEF Present, EngineInv
<1>4. r \in EntryRow /\ r.ver = writes + 1 /\ r.text = x /\ r.domain = d
  BY <1>1, <1>3 DEF EntryRow
<1> QED
  BY <1>1, <1>2, <1>3, <1>4, ReplaceBegins

LEMMA InsertStep ==
    ASSUME EngineInv, NEW i \in Ids, insert_with_id(i)
    PROVE  EngineInv'
<1>1. PICK r : r = [NoRow EXCEPT !.ver = writes + 1]
  OBVIOUS
<1>2. i \in ChunkIds /\ Begin(ReplaceCalls(i, r), ReplaceUndo(i)) /\ writes \in Nat /\ i \notin EntryIds
  BY <1>1, IdsApart DEF insert_with_id, EngineInv
<1>3. r \in EntryRow /\ r.ver = writes + 1
  BY <1>1, <1>2 DEF EntryRow, NoRow
<1> QED
  BY <1>2, <1>3, ReplaceBegins

\* The invariant of the operation under way, from the invariant.
LEMMA EngineBusy ==
    ASSUME EngineInv, mode # "idle"
    PROVE  OldAtRest /\ writes > 0 /\ before = <<OldEntry, OldEmb, OldNode, OldSig>>
  BY DEF EngineInv, OldAtRest

LEMMA StillBusy ==
    ASSUME EngineInv, mode # "idle", EngineLists', before' = before, writes' = writes, mishaps' \in 0..MaxMishaps,
           torn \subseteq torn', blurred \subseteq blurred', torn' \subseteq Ids, blurred' \subseteq Ids,
           \/ mode' = "doing" /\ result' = "ok" /\ \E job \in Jobs, k \in 0..8 : Doing(job, k)'
           \/ mode' = "undoing" /\ result' = "error" /\ \E job \in Jobs, m \in 1..8 : Undoing(job, m)'
    PROVE  EngineInv'
<1>1. OldAtRest /\ writes > 0 /\ before = <<OldEntry, OldEmb, OldNode, OldSig>>
  BY EngineBusy
<1>2. OldAtRest'
  BY <1>1, SteadyRest
<1>3. writes' \in 0..MaxWrites /\ writes' > 0
  BY <1>1 DEF EngineInv
<1>4. before' = <<OldEntry, OldEmb, OldNode, OldSig>>'
  BY <1>1, Steady
<1>5. AtRest(OldEntry, OldEmb, OldNode, OldSig, writes - 1)'
  BY <1>2 DEF OldAtRest
<1>6. mode' \in {"idle", "doing", "undoing"} /\ mode' # "idle"
  OBVIOUS
<1>7. mode' = "doing" => result' = "ok" /\ \E job \in Jobs, k \in 0..8 : Doing(job, k)'
  OBVIOUS
<1>8. mode' = "undoing" => result' = "error" /\ \E job \in Jobs, m \in 1..8 : Undoing(job, m)'
  OBVIOUS
<1> QED
  BY <1>3, <1>4, <1>5, <1>6, <1>7, <1>8 DEF EngineInv

LEMMA WorksStep ==
    ASSUME EngineInv, CallWorks
    PROVE  EngineInv'
<1>1. /\ mode # "idle" /\ mode' = mode /\ writes' = writes /\ mishaps' = mishaps /\ before' = before
      /\ result' = result /\ torn' = torn /\ blurred' = blurred
  BY DEF CallWorks
<1>2. OldAtRest /\ EngineLists /\ mishaps \in 0..MaxMishaps /\ torn \subseteq Ids /\ blurred \subseteq Ids
  BY <1>1, EngineBusy DEF EngineInv
<1>3. CASE mode = "doing"
  <2>1. PICK job \in Jobs, k \in 0..8 : Doing(job, k)
    BY <1>3 DEF EngineInv
  <2>2. EngineLists' /\ k + 1 \in 0..8 /\ Doing(job, k + 1)'
    BY <2>1, <1>2, <1>3, DoingWorks
  <2>3. \E jb \in Jobs, b \in 0..8 : Doing(jb, b)'
    BY <2>2
  <2>4. mode' = "doing" /\ result' = "ok"
    BY <1>1, <1>3 DEF EngineInv
  <2> QED
    BY <2>2, <2>3, <2>4, <1>1, <1>2, StillBusy
<1>4. CASE mode = "undoing"
  <2>1. PICK job \in Jobs, m \in 1..8 : Undoing(job, m)
    BY <1>4 DEF EngineInv
  <2>2. EngineLists' /\ Undoing(job, m)'
    BY <2>1, <1>2, <1>4, UndoWorks
  <2>3. \E jb \in Jobs, b \in 1..8 : Undoing(jb, b)'
    BY <2>2
  <2>4. mode' = "undoing" /\ result' = "error"
    BY <1>1, <1>4 DEF EngineInv
  <2> QED
    BY <2>2, <2>3, <2>4, <1>1, <1>2, StillBusy
<1> QED
  BY <1>1, <1>3, <1>4 DEF EngineInv

LEMMA MishapCount ==
    ASSUME EngineInv, Mishap
    PROVE  mishaps' \in 0..MaxMishaps
  BY IdsApart DEF EngineInv, Mishap

LEMMA FailsStep ==
    ASSUME EngineInv, CallFails
    PROVE  EngineInv'
<1>1. /\ mode = "doing" /\ todo # <<>> /\ mode' = "undoing" /\ result' = "error"
      /\ writes' = writes /\ before' = before /\ blurred' = blurred
      /\ torn' = IF Removes(Head(todo)) THEN torn \cup {Head(todo).id} ELSE torn
  BY DEF CallFails
<1>2. OldAtRest /\ EngineLists /\ torn \subseteq Ids /\ blurred \subseteq Ids
  BY <1>1, EngineBusy DEF EngineInv
<1>3. mishaps' \in 0..MaxMishaps
  BY MishapCount DEF CallFails
<1>4. PICK job \in Jobs, k \in 0..8 : Doing(job, k)
  BY <1>1 DEF EngineInv
<1>5. EngineLists' /\ k + 1 \in 1..8 /\ Undoing(job, k + 1)'
  BY <1>2, <1>4, DoingFails
<1>6. Head(todo).id \in Ids
  <2>1. Head(todo) \in EngineCall
    BY <1>1, <1>2, ListShape DEF EngineLists
  <2> QED
    BY <2>1 DEF EngineCall
<1>7. torn \subseteq torn' /\ torn' \subseteq Ids
  BY <1>1, <1>2, <1>6
<1>8. \E jb \in Jobs, b \in 1..8 : Undoing(jb, b)'
  BY <1>5
<1> QED
  BY <1>1, <1>2, <1>3, <1>5, <1>7, <1>8, StillBusy

LEMMA BlursStep ==
    ASSUME EngineInv, UndoFails
    PROVE  EngineInv'
<1>1. /\ mode = "undoing" /\ todo # <<>> /\ mode' = mode /\ result' = result
      /\ writes' = writes /\ before' = before /\ torn' = torn
      /\ blurred' = blurred \cup {Head(todo).id}
  BY DEF UndoFails
<1>2. OldAtRest /\ EngineLists /\ torn \subseteq Ids /\ blurred \subseteq Ids
  BY <1>1, EngineBusy DEF EngineInv
<1>3. mishaps' \in 0..MaxMishaps
  BY MishapCount DEF UndoFails
<1>4. PICK job \in Jobs, m \in 1..8 : Undoing(job, m)
  BY <1>1 DEF EngineInv
<1>5. EngineLists' /\ Undoing(job, m)' /\ todo[1].id \in Ids
  BY <1>2, <1>4, UndoBlurs
<1>6. Head(todo) = todo[1]
  BY <1>1, <1>2, ListShape DEF EngineLists
<1>7. blurred \subseteq blurred' /\ blurred' \subseteq Ids
  BY <1>1, <1>2, <1>5, <1>6
<1>8. \E jb \in Jobs, b \in 1..8 : Undoing(jb, b)'
  BY <1>5
<1>9. mode' = "undoing" /\ result' = "error"
  BY <1>1 DEF EngineInv
<1> QED
  BY <1>1, <1>2, <1>3, <1>5, <1>7, <1>8, <1>9, StillBusy

LEMMA EndsStep ==
    ASSUME EngineInv, OperationEnds
    PROVE  EngineInv'
<1>1. mode # "idle"
  BY DEF OperationEnds
<1>2. OldAtRest
  BY <1>1, EngineBusy
<1>3. CASE mode = "doing"
  <2>1. PICK job \in Jobs, k \in 0..8 : Doing(job, k)
    BY <1>3 DEF EngineInv
  <2> QED
    BY <2>1, <1>2, <1>3, DoingEnds
<1>4. CASE mode = "undoing"
  <2>1. PICK job \in Jobs, m \in 1..8 : Undoing(job, m)
    BY <1>4 DEF EngineInv
  <2> QED
    BY <2>1, <1>2, <1>4, UndoingEnds
<1> QED
  BY <1>1, <1>3, <1>4 DEF EngineInv

LEMMA RestartStep ==
    ASSUME EngineInv, Restart
    PROVE  EngineInv'
<1>1. CASE mode = "idle"
  <2>1. AtRest(entry, emb, node, sig, writes)
    BY <1>1 DEF EngineInv
  <2>2. torn' = torn /\ blurred' = blurred
    BY <1>1 DEF Restart
  <2>3. \A j \in Ids : Sound(j)' => emb[j] = entry[j].ver /\ Signed(entry, sig, j)
    BY <2>1, <2>2 DEF AtRest, SoundComplete, Sound
  <2> QED
    BY <2>1, <2>3, RestartRests DEF AtRest
<1>2. CASE mode = "doing"
  <2>1. PICK job \in Jobs, k \in 0..8 : Doing(job, k)
    BY <1>2 DEF EngineInv
  <2> QED
    BY <2>1, <1>2, EngineBusy, DoingRestart
<1>3. CASE mode = "undoing"
  <2>1. PICK job \in Jobs, m \in 1..8 : Undoing(job, m)
    BY <1>3 DEF EngineInv
  <2> QED
    BY <2>1, <1>3, EngineBusy, UndoingRestart
<1> QED
  BY <1>1, <1>2, <1>3 DEF EngineInv

LEMMA EngineStutter ==
    ASSUME EngineInv, UNCHANGED engineVars
    PROVE  EngineInv'
<1>1. /\ entry' = entry /\ emb' = emb /\ node' = node /\ sig' = sig /\ todo' = todo /\ undo' = undo
      /\ mode' = mode /\ writes' = writes /\ mishaps' = mishaps /\ before' = before /\ result' = result
      /\ torn' = torn /\ blurred' = blurred
  BY DEF engineVars
<1>2. EngineLists' <=> EngineLists
  BY <1>1 DEF EngineLists
<1>3. CASE mode = "idle"
  <2>1. AtRest(entry, emb, node, sig, writes)'
    <3>1. AtRest(entry, emb, node, sig, writes)
      BY <1>3 DEF EngineInv
    <3> QED
      BY <3>1, <1>1 DEF AtRest, StoresTyped, Unused, NoneOutlives, SoundComplete, Signed, Sound
  <2> QED
    BY <2>1, <1>1, <1>2, <1>3 DEF EngineInv
<1>4. CASE mode = "doing"
  <2>1. PICK job \in Jobs, k \in 0..8 : Doing(job, k)
    BY <1>4 DEF EngineInv
  <2>2. Doing(job, k)'
    <3>1. StoresAt(job, k)'
      <4>1. StoresAt(job, k)
        BY <2>1 DEF Doing
      <4>2. /\ \A j : RowAt(job, k, j)' = RowAt(job, k, j) /\ EmbAt(job, k, j)' = EmbAt(job, k, j)
                     /\ NodeAt(job, k, j)' = NodeAt(job, k, j)
            /\ \A d, x : SigAt(job, k, d, x)' = SigAt(job, k, d, x)
        BY <1>1, SteadyAt
      <4>3. /\ entry' = [j \in Ids |-> RowAt(job, k, j)'] /\ emb' = [j \in Ids |-> EmbAt(job, k, j)']
            /\ node' = [j \in Ids |-> NodeAt(job, k, j)']
        BY <4>1, <4>2, <1>1 DEF StoresAt
      <4>4. sig' = [d \in Domains |-> [x \in Contents |-> SigAt(job, k, d, x)']]
        <5>1. \A d \in Domains : [x \in Contents |-> SigAt(job, k, d, x)'] = [x \in Contents |-> SigAt(job, k, d, x)]
          BY <4>2
        <5> QED
          BY <5>1, <4>1, <1>1 DEF StoresAt
      <4> QED
        BY <4>3, <4>4 DEF StoresAt
    <3>2. JobFits(job)'
      BY <2>1, <1>1, Steady DEF Doing
    <3>3. ASSUME NEW c \in 1..Len(todo)
          PROVE  todo'[c] = JobCall(job, k + c)' /\ IsUndo(undo[c], job, k + c)'
      BY <2>1, <1>1, Steady DEF Doing, IsUndo
    <3> QED
      BY <3>1, <3>2, <3>3, <2>1, <1>1 DEF Doing
  <2> QED
    BY <2>2, <1>1, <1>2, <1>4, StillBusy DEF EngineInv
<1>5. CASE mode = "undoing"
  <2>1. PICK job \in Jobs, m \in 1..8 : Undoing(job, m)
    BY <1>5 DEF EngineInv
  <2>2. Undoing(job, m)'
    <3>1. JobFits(job)'
      BY <2>1, <1>1, Steady DEF Undoing
    <3>2. UndoKept(job)'
      <4>0. UndoKept(job)
        BY <2>1 DEF Undoing
      <4>1. OthersKept(job)'
        BY <4>0, <1>1, Steady DEF UndoKept, OthersKept, Signed, Sound
      <4>2. StoresTyped(entry, emb, node, sig)'
        BY <4>0, <1>1 DEF UndoKept, StoresTyped
      <4>3. NoneOutlives(entry, emb, sig)' /\ Unused(entry, emb, node, sig, writes)'
        BY <4>0, <1>1 DEF UndoKept, NoneOutlives, Unused
      <4> QED
        BY <4>1, <4>2, <4>3 DEF UndoKept
    <3>3. OutTorn(job) => OutTorn(job)'
      BY <1>1, Steady DEF OutTorn
    <3>4. ASSUME NEW n \in 0..8, NEW z \in 0..8, NEW q \in 0..8, UndoStage(job, m, n, z, q)
          PROVE  UndoStage(job, m, n, z, q)'
      <4>1. UndoStores(job, m, n, z, q)'
        <5>0. UndoStores(job, m, n, z, q)
          BY <3>4 DEF UndoStage
        <5>1. DroppedTo(job, q)' <=> DroppedTo(job, q)
          BY <1>1 DEF DroppedTo
        <5>2. BackTo(job, z)' <=> BackTo(job, z)
          BY <1>1, Steady DEF BackTo
        <5>3. UnreplacedTo(job, m, n)' <=> UnreplacedTo(job, m, n)
          BY <1>1, Steady DEF UnreplacedTo
        <5>4. SigsBack(job, z, q)' <=> SigsBack(job, z, q)
          BY <1>1, Steady DEF SigsBack, Sound
        <5>5. (sig = OldSig)' <=> sig = OldSig
          BY <1>1, Steady
        <5> QED
          BY <5>0, <5>1, <5>2, <5>3, <5>4, <5>5, <1>1 DEF UndoStores
      <4>2. \A c \in 1..n : todo'[c] = UndoCall(job, m, n - c + 1)'
        BY <3>4, <1>1, Steady DEF UndoStage
      <4> QED
        BY <4>1, <4>2, <3>4, <1>1, Steady DEF UndoStage, LeastOf
    <3>5. (m <= job.p /\ OutTorn(job)') \/ (m > job.p /\ \E n, z, q \in 0..8 : UndoStage(job, m, n, z, q)')
      BY <2>1, <3>3, <3>4 DEF Undoing
    <3> QED
      BY <3>1, <3>2, <3>5, <2>1 DEF Undoing
  <2> QED
    BY <2>2, <1>1, <1>2, <1>5, StillBusy DEF EngineInv
<1> QED
  BY <1>3, <1>4, <1>5 DEF EngineInv

LEMMA EngineStart == EngineInit => EngineInv
<1> SUFFICES ASSUME EngineInit PROVE EngineInv
  OBVIOUS
<1>1. EngineLists
  <2>1. <<>> \in Seq(EngineCall) /\ <<>> \in Seq(Seq(EngineCall))
    OBVIOUS
  <2> QED
    BY <2>1 DEF EngineInit, EngineLists
<1>2. /\ \A j \in Ids : entry[j] = NoRow /\ emb[j] = 0 /\ node[j] = 0
      /\ \A d \in Domains, x \in Contents : sig[d][x] = NoId
      /\ writes = 0 /\ mishaps = 0 /\ torn = {} /\ blurred = {} /\ mode = "idle" /\ result = "ok"
  BY DEF EngineInit
<1>3. StoresTyped(entry, emb, node, sig)
  <2>1. entry \in [Ids -> EntryRow] /\ emb \in [Ids -> Nat] /\ node \in [Ids -> Nat]
    BY NoRowTyped DEF EngineInit
  <2>2. sig \in [Domains -> [Contents -> EntryIds \cup {NoId}]]
    BY DEF EngineInit
  <2>3. \A j \in EntryIds : ~(entry[j].ver > 0)
    BY <1>2, IdsApart, NoRowTyped
  <2> QED
    BY <2>1, <2>2, <2>3 DEF StoresTyped
<1>4. Unused(entry, emb, node, sig, writes)
  BY <1>2, IdsApart DEF Unused
<1>5. NoneOutlives(entry, emb, sig)
  BY <1>2, IdsApart DEF NoneOutlives
<1>6. SoundComplete(entry, emb, node, sig)
  BY <1>2, NoRowTyped DEF SoundComplete, Signed
<1>7. writes \in 0..MaxWrites /\ mishaps \in 0..MaxMishaps
  BY <1>2, IdsApart
<1> QED
  BY <1>1, <1>2, <1>3, <1>4, <1>5, <1>6, <1>7 DEF EngineInv, AtRest

LEMMA EngineStep == EngineInv /\ [EngineNext]_engineVars => EngineInv'
<1> SUFFICES ASSUME EngineInv, [EngineNext]_engineVars PROVE EngineInv'
  OBVIOUS
<1>1. CASE \E d \in Domains, x \in Contents : Refresh(d, x) \/ Create(d, x)
  BY <1>1, RefreshStep, CreateStep
<1>2. CASE \E i \in Ids : insert_with_id(i) \/ forget(i)
  BY <1>2, InsertStep, ForgetBegins
<1>3. CASE CallWorks
  BY <1>3, WorksStep
<1>4. CASE CallFails
  BY <1>4, FailsStep
<1>5. CASE UndoFails
  BY <1>5, BlursStep
<1>6. CASE OperationEnds
  BY <1>6, EndsStep
<1>7. CASE Restart
  BY <1>7, RestartStep
<1>8. CASE UNCHANGED engineVars
  BY <1>8, EngineStutter
<1> QED
  BY <1>1, <1>2, <1>3, <1>4, <1>5, <1>6, <1>7, <1>8 DEF EngineNext

LEMMA EngineMeans == EngineInv => EngineHolds
<1> SUFFICES ASSUME EngineInv PROVE EngineHolds
  OBVIOUS
<1>1. StoresTyped(entry, emb, node, sig) /\ NoneOutlives(entry, emb, sig)
  <2>1. CASE mode = "idle"
    BY <2>1 DEF EngineInv, AtRest
  <2>2. CASE mode = "doing"
    <3>1. PICK job \in Jobs, k \in 0..8 : Doing(job, k)
      BY <2>2 DEF EngineInv
    <3>2. OldAtRest /\ JobFits(job) /\ StoresAt(job, k) /\ k \in Nat
      BY <3>1, <2>2, EngineBusy DEF Doing
    <3> QED
      BY <3>2, AtTyped, AtNoneOutlives
  <2>3. CASE mode = "undoing"
    <3>1. PICK job \in Jobs, m \in 1..8 : Undoing(job, m)
      BY <2>3 DEF EngineInv
    <3> QED
      BY <3>1 DEF Undoing, UndoKept
  <2> QED
    BY <2>1, <2>2, <2>3 DEF EngineInv
<1>2. \A i \in EntryIds \ blurred : emb[i] > 0 => Present(i)
  BY <1>1, IdsApart DEF NoneOutlives, Present
<1>3. ASSUME NEW d \in Domains, NEW x \in Contents, sig[d][x] # NoId, sig[d][x] \notin blurred
      PROVE  Present(sig[d][x]) /\ Sig(entry[sig[d][x]]) = <<d, x>>
  <2>1. sig[d][x] \in EntryIds
    BY <1>1, <1>3 DEF StoresTyped
  <2> QED
    BY <2>1, <1>1, <1>3, IdsApart DEF NoneOutlives, Present
<1>4. mode = "idle" => \A i \in Ids : Sound(i) =>
         /\ emb[i] = entry[i].ver /\ node[i] = entry[i].ver
         /\ Present(i) /\ i \in EntryIds => sig[entry[i].domain][entry[i].text] = i
  BY DEF EngineInv, AtRest, SoundComplete, Signed, Present
<1>5. mode = "idle" /\ result = "error" /\ torn \cup blurred = {} => before = <<entry, emb, node, sig>>
  BY DEF EngineInv
<1> QED
  BY <1>2, <1>3, <1>4, <1>5 DEF EngineHolds

\* The memory engine, however many entries, texts, domains and chunks there are,
\* whichever calls fail and whenever the process ends (engine.rs): neither an
\* embedding nor a signature outlives its row, an entry no call failed on is
\* complete in all four stores between operations, and a write that failed and
\* was undone leaves the stores as it found them.
THEOREM MemoriesAreWhole == EngineSpec => []EngineHolds
<1>1. EngineInit => EngineInv
  BY EngineStart
<1>2. EngineInv /\ [EngineNext]_engineVars => EngineInv'
  BY EngineStep
<1>3. EngineInv => EngineHolds
  BY EngineMeans
<1> QED
  BY <1>1, <1>2, <1>3, PTL DEF EngineSpec

=============================================================================
