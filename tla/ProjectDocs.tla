---------------------------- MODULE ProjectDocs ----------------------------
(***************************************************************************)
(* The index of a project's instruction files                              *)
(* (crates/rust-agent/src/memory/document.rs and index_project_docs of     *)
(* memory/service.rs).  A document is found by the hash of its text, so    *)
(* two files, also of two projects, may share one; what a project sees of  *)
(* them are its memberships, kept up to date through a map from file to    *)
(* document.  All are rows of a store without transactions: a run is a     *)
(* sequence of calls, each of which may fail and end it, and the process   *)
(* may end between two.  Sessions of one process take turns through        *)
(* document_index_gate; prompts read meanwhile and are cached under the    *)
(* revision.                                                               *)
(***************************************************************************)
EXTENDS Naturals, Sequences, FiniteSets

CONSTANTS
    DocSessions,    \* services that share the stores
    ProjectOf,      \* the project of each
    ProfileOf,      \* the embedding profile each is configured with
    DocTexts,       \* contents of a file that yield chunks
    DocChunks,      \* chunks of a document
    MaxDocs,        \* bound of the model: documents made
    MaxFileEdits,   \* bound of the model: changes of files
    MaxDocFaults    \* bound of the model: calls that fail, and crashes

NoFile == "absent"
Blank == "blank"        \* a file that yields no chunk
NoProfile == "none"

ASSUME DocsAssumption ==
    /\ DocTexts \cap {NoFile, Blank} = {}
    /\ \A s \in DocSessions : ProfileOf[s] # NoProfile
    /\ DocChunks \in Nat \ {0} /\ MaxDocs \in Nat
    /\ MaxFileEdits \in Nat /\ MaxDocFaults \in Nat

Files == <<"AGENTS.md", "SOUL.md">>
FileNames == {Files[k] : k \in DOMAIN Files}
Projects == {ProjectOf[s] : s \in DocSessions}
NoDoc == 0
DocIds == 1 .. MaxDocs
NoDocRow == [text |-> NoFile, name |-> NoFile]
AllChunks == 1 .. DocChunks

VARIABLES
    file,           \* file[p][n] : what the file holds
    docRow,         \* doc/{id}
    hashRow,        \* hash/{text}
    chunks,         \* the chunks of each document
    docCount,       \* ids given out
    member,         \* project_doc/{project}/{id}
    sourceDoc,      \* project_doc_source/{project}/{file}
    contract,       \* the embedding contract
    profiles,       \* profiles of the vectors that were stored
    indexRun,       \* who holds document_index_gate, and how far it is
    revision,       \* the shared counter
    prompt,         \* a session's search under way, and its cached result
    fileEdits,
    docFaults,
    settled,        \* history: the texts of the last run, if it succeeded
    failedRun       \* history: a run has failed

storeVars == <<docRow, hashRow, chunks, docCount, member, sourceDoc>>
contractVars == <<contract, profiles>>
docVars == <<file, storeVars, contractVars, indexRun, revision, prompt, fileEdits, docFaults,
             settled, failedRun>>

IdleRun == [by |-> 0, at |-> "idle", k |-> 0, prev |-> [n \in FileNames |-> {}], before |-> NoDoc,
            text |-> NoFile, doc |-> NoDoc, old |-> {}, clean |-> <<>>, changed |-> FALSE,
            whole |-> TRUE, taken |-> {}]
NoPrompt == [at |-> "idle", rev |-> 0, cached |-> FALSE, cachedRev |-> 0, docs |-> {}]
Unsettled == {NoFile}

DocsInit ==
    /\ file \in [Projects -> [FileNames -> DocTexts \cup {NoFile}]]
    /\ docRow = [d \in DocIds |-> NoDocRow] /\ hashRow = [x \in DocTexts |-> NoDoc]
    /\ chunks = [d \in DocIds |-> {}] /\ docCount = 0
    /\ member = [p \in Projects |-> {}]
    /\ sourceDoc = [p \in Projects |-> [n \in FileNames |-> NoDoc]]
    /\ contract = NoProfile /\ profiles = {}
    /\ indexRun = IdleRun /\ revision = 0 /\ prompt = [s \in DocSessions |-> NoPrompt]
    /\ fileEdits = 0 /\ docFaults = 0
    /\ settled = [p \in Projects |-> Unsettled] /\ failedRun = FALSE

RunProject == ProjectOf[indexRun.by]
RunFile == Files[indexRun.k]

(* Someone edits, creates or deletes a file.                               *)
EditFile(p, n, x) ==
    /\ fileEdits < MaxFileEdits /\ x # file[p][n]
    /\ fileEdits' = fileEdits + 1
    /\ file' = [file EXCEPT ![p][n] = x]
    /\ UNCHANGED <<storeVars, contractVars, indexRun, revision, prompt, docFaults, settled, failedRun>>

-----------------------------------------------------------------------------
(* The embedding contract.  Load, compare and write are under              *)
(* embedding_contract_gate.                                                *)

MatchesContract(s) == contract \in {NoProfile, ProfileOf[s]}

ensure_embedding_contract(s) ==
    /\ MatchesContract(s)
    /\ contract' = ProfileOf[s]

(* A personal memory: its vector is stored when the contract allows it.    *)
StorePersonal(s) ==
    /\ profiles # profiles \cup {ProfileOf[s]}
    /\ ensure_embedding_contract(s)
    /\ profiles' = profiles \cup {ProfileOf[s]}
    /\ UNCHANGED <<file, storeVars, indexRun, revision, prompt, fileEdits, docFaults, settled,
                   failedRun>>

-----------------------------------------------------------------------------
(* A run of index_project_docs.                                            *)

Goes(step) ==
    /\ indexRun' = step
    /\ UNCHANGED <<file, revision, prompt, fileEdits, docFaults, settled, failedRun>>

(* ensure_document_index: without a contract a probe is embedded first.    *)
StartRun(s) ==
    /\ indexRun.at = "idle" /\ MatchesContract(s)
    /\ indexRun' = [IdleRun EXCEPT !.by = s,
                        !.at = IF contract = NoProfile THEN "probing" ELSE "listing"]
    /\ settled' = [settled EXCEPT ![ProjectOf[s]] = Unsettled]
    /\ UNCHANGED <<file, storeVars, contractVars, revision, prompt, fileEdits, docFaults, failedRun>>

(* The probe comes back; another may have made the contract meanwhile.     *)
ProbeReturns ==
    /\ indexRun.at = "probing"
    /\ ensure_embedding_contract(indexRun.by)
    /\ Goes([indexRun EXCEPT !.at = "listing"])
    /\ UNCHANGED <<storeVars, profiles>>

(* The memberships there are, by the file name their document was made     *)
(* with.                                                                   *)
ListMembers ==
    /\ indexRun.at = "listing"
    /\ Goes([indexRun EXCEPT !.at = "file", !.k = 1,
                !.prev = [n \in FileNames |-> {d \in member[RunProject] : docRow[d].name = n}]])
    /\ UNCHANGED <<storeVars, contractVars>>

OldIds ==
    indexRun.prev[RunFile] \cup ({sourceDoc[RunProject][RunFile]} \ {NoDoc})

FileGone ==
    /\ indexRun.at = "file" /\ file[RunProject][RunFile] = NoFile
    /\ Goes([indexRun EXCEPT !.at = "removing", !.text = NoFile, !.doc = NoDoc, !.old = OldIds,
                !.before = sourceDoc[RunProject][RunFile]])
    /\ UNCHANGED <<storeVars, contractVars>>

(* A file that cannot be read is passed over.                              *)
FileUnreadable ==
    /\ indexRun.at = "file" /\ file[RunProject][RunFile] # NoFile
    /\ docFaults < MaxDocFaults /\ docFaults' = docFaults + 1
    /\ indexRun' = [indexRun EXCEPT !.at = "next", !.whole = FALSE]
    /\ UNCHANGED <<file, storeVars, contractVars, revision, prompt, fileEdits, settled, failedRun>>

(* index_content: the text is known already.                               *)
Known(x) == hashRow[x] # NoDoc /\ docRow[hashRow[x]] # NoDocRow

FileKnown ==
    LET x == file[RunProject][RunFile] IN
    /\ indexRun.at = "file" /\ x \in DocTexts /\ Known(x)
    /\ Goes([indexRun EXCEPT !.at = "removing", !.text = x, !.doc = hashRow[x], !.taken = @ \cup {x},
                !.old = OldIds \ {hashRow[x]}, !.before = sourceDoc[RunProject][RunFile]])
    /\ UNCHANGED <<storeVars, contractVars>>

FileNew ==
    LET x == file[RunProject][RunFile]
        d == docCount + 1
    IN  /\ indexRun.at = "file" /\ x \in DocTexts /\ ~Known(x) /\ d <= MaxDocs
        /\ docCount' = d
        /\ Goes([indexRun EXCEPT !.at = "chunks", !.text = x, !.doc = d, !.old = OldIds, !.taken = @ \cup {x},
                    !.before = sourceDoc[RunProject][RunFile]])
        /\ UNCHANGED <<docRow, hashRow, chunks, member, sourceDoc, contractVars>>

(* A chunk is embedded outside of the engine's lock and inserted under it. *)
InsertChunk ==
    LET i == Cardinality(chunks[indexRun.doc]) + 1 IN
    /\ indexRun.at = "chunks"
    /\ chunks' = [chunks EXCEPT ![indexRun.doc] = @ \cup {i}]
    /\ profiles' = profiles \cup {ProfileOf[indexRun.by]}
    /\ Goes([indexRun EXCEPT !.at = IF i = DocChunks THEN "meta" ELSE "chunks"])
    /\ UNCHANGED <<docRow, hashRow, docCount, member, sourceDoc, contract>>

WriteMeta ==
    /\ indexRun.at = "meta"
    /\ docRow' = [docRow EXCEPT ![indexRun.doc] = [text |-> indexRun.text, name |-> RunFile]]
    /\ Goes([indexRun EXCEPT !.at = "hash"])
    /\ UNCHANGED <<hashRow, chunks, docCount, member, sourceDoc, contractVars>>

WriteHash ==
    /\ indexRun.at = "hash"
    /\ hashRow' = [hashRow EXCEPT ![indexRun.text] = indexRun.doc]
    /\ Goes([indexRun EXCEPT !.at = "removing"])
    /\ UNCHANGED <<docRow, chunks, docCount, member, sourceDoc, contractVars>>

(* Mutant: a document is thought to belong to one file.                    *)
NeverShared(d) == FALSE

(* remove_project_doc_membership_if_unreferenced                           *)
Referenced(d) == \E n \in FileNames \ {RunFile} : sourceDoc[RunProject][n] = d

RemoveOld(d) ==
    LET drop == ~Referenced(d) /\ d \in member[RunProject] IN
    /\ indexRun.at = "removing" /\ d \in indexRun.old
    /\ member' = IF drop THEN [member EXCEPT ![RunProject] = @ \ {d}] ELSE member
    /\ Goes([indexRun EXCEPT !.old = @ \ {d}, !.changed = @ \/ drop])
    /\ UNCHANGED <<docRow, hashRow, chunks, docCount, sourceDoc, contractVars>>

AddMember ==
    /\ indexRun.at = "removing" /\ indexRun.old = {} /\ indexRun.doc # NoDoc
    /\ member' = [member EXCEPT ![RunProject] = @ \cup {indexRun.doc}]
    /\ Goes([indexRun EXCEPT !.at = "source",
                !.changed = @ \/ indexRun.doc \notin member[RunProject]])
    /\ UNCHANGED <<docRow, hashRow, chunks, docCount, sourceDoc, contractVars>>

(* The map is written last, or deleted with the file.                      *)
SetSource ==
    /\ \/ indexRun.at = "source"
       \/ indexRun.at = "removing" /\ indexRun.old = {} /\ indexRun.doc = NoDoc
    /\ sourceDoc' = [sourceDoc EXCEPT ![RunProject][RunFile] = indexRun.doc]
    /\ Goes([indexRun EXCEPT !.at = "next", !.changed = @ \/ indexRun.before # indexRun.doc])
    /\ UNCHANGED <<docRow, hashRow, chunks, docCount, member, contractVars>>

NextFile ==
    /\ indexRun.at = "next" /\ indexRun.k < Len(Files)
    /\ Goes([indexRun EXCEPT !.at = "file", !.k = @ + 1])
    /\ UNCHANGED <<storeVars, contractVars>>

RunSucceeds ==
    /\ indexRun.at = "next" /\ indexRun.k = Len(Files)
    /\ revision' = IF indexRun.changed THEN revision + 1 ELSE revision
    /\ settled' = IF indexRun.whole
                  THEN [settled EXCEPT ![RunProject] = indexRun.taken] ELSE settled
    /\ indexRun' = IdleRun
    /\ UNCHANGED <<file, storeVars, contractVars, prompt, fileEdits, docFaults, failedRun>>

(* The run ends without counting the revision.                             *)
RunFails ==
    /\ indexRun' = IdleRun /\ failedRun' = TRUE
    /\ UNCHANGED <<file, storeVars, contractVars, revision, prompt, fileEdits, settled>>

(* A blank file, or a contract another made, ends it; so does a call.      *)
RunRefused ==
    /\ \/ indexRun.at = "file" /\ file[RunProject][RunFile] = Blank
       \/ indexRun.at = "probing" /\ ~MatchesContract(indexRun.by)
    /\ RunFails /\ UNCHANGED docFaults

CallFailsInRun ==
    /\ indexRun.at \in {"listing", "file", "removing", "source"}
    /\ docFaults < MaxDocFaults /\ docFaults' = docFaults + 1
    /\ RunFails

(* A document that could not be finished is taken back: its row, if it may *)
(* have one, then its chunks.                                              *)
DocumentFails ==
    /\ indexRun.at \in {"chunks", "meta", "hash"}
    /\ docFaults < MaxDocFaults /\ docFaults' = docFaults + 1
    /\ indexRun' = [indexRun EXCEPT !.at = "cleaning",
            !.clean = (IF indexRun.at = "chunks" THEN <<>> ELSE <<0>>) \o [i \in AllChunks |-> i]]
    /\ UNCHANGED <<file, storeVars, contractVars, revision, prompt, fileEdits, settled, failedRun>>

(* cleanup_chunks goes on when a call fails.                               *)
CleanOne(ok) ==
    LET i == Head(indexRun.clean)
        d == indexRun.doc
    IN  /\ indexRun.at = "cleaning" /\ indexRun.clean # <<>>
        /\ ok \/ docFaults < MaxDocFaults
        /\ docFaults' = IF ok THEN docFaults ELSE docFaults + 1
        /\ docRow' = IF ok /\ i = 0 THEN [docRow EXCEPT ![d] = NoDocRow] ELSE docRow
        /\ chunks' = IF ok /\ i > 0 THEN [chunks EXCEPT ![d] = @ \ {i}] ELSE chunks
        /\ indexRun' = [indexRun EXCEPT !.clean = Tail(@)]
        /\ UNCHANGED <<file, hashRow, docCount, member, sourceDoc, contractVars, revision, prompt,
                       fileEdits, settled, failedRun>>

CleanEnds ==
    /\ indexRun.at = "cleaning" /\ indexRun.clean = <<>>
    /\ RunFails /\ UNCHANGED docFaults

(* The process ends and starts again.                                      *)
Reboot ==
    /\ docFaults < MaxDocFaults /\ docFaults' = docFaults + 1
    /\ indexRun' = IdleRun /\ revision' = 0
    /\ prompt' = [s \in DocSessions |-> NoPrompt]
    /\ failedRun' = (failedRun \/ indexRun.at # "idle")
    /\ UNCHANGED <<file, storeVars, contractVars, fileEdits, settled>>

-----------------------------------------------------------------------------
(* Prompts.  The search makes the contract if there is none and fails on   *)
(* another's; the result, also of a failure, is cached under the revision  *)
(* at its beginning.                                                       *)

PromptBegins(s) ==
    /\ prompt[s].at = "idle"
    /\ ~(prompt[s].cached /\ prompt[s].cachedRev = revision)
    /\ prompt' = [prompt EXCEPT ![s].at = "embedding", ![s].rev = revision]
    /\ UNCHANGED <<file, storeVars, contractVars, indexRun, revision, fileEdits, docFaults, settled,
                   failedRun>>

PromptEmbeds(s) ==
    /\ prompt[s].at = "embedding"
    /\ contract' = IF MatchesContract(s) THEN ProfileOf[s] ELSE contract
    /\ prompt' = [prompt EXCEPT ![s].at = "searching"]
    /\ UNCHANGED <<file, storeVars, profiles, indexRun, revision, fileEdits, docFaults, settled,
                   failedRun>>

PromptEnds(s) ==
    /\ prompt[s].at = "searching"
    /\ prompt' = [prompt EXCEPT ![s] = [at |-> "idle", rev |-> 0, cached |-> TRUE,
                    cachedRev |-> prompt[s].rev,
                    docs |-> IF contract = ProfileOf[s] THEN member[ProjectOf[s]] ELSE {}]]
    /\ UNCHANGED <<file, storeVars, contractVars, indexRun, revision, fileEdits, docFaults, settled,
                   failedRun>>

-----------------------------------------------------------------------------

RunStep ==
    \/ ProbeReturns \/ ListMembers
    \/ FileGone \/ FileUnreadable \/ FileKnown \/ FileNew
    \/ InsertChunk \/ WriteMeta \/ WriteHash
    \/ \E d \in DocIds : RemoveOld(d)
    \/ AddMember \/ SetSource \/ NextFile \/ RunSucceeds
    \/ RunRefused \/ CallFailsInRun \/ DocumentFails \/ CleanEnds
    \/ \E ok \in BOOLEAN : CleanOne(ok)

DocsNext ==
    \/ \E p \in Projects, n \in FileNames, x \in DocTexts \cup {NoFile, Blank} : EditFile(p, n, x)
    \/ \E s \in DocSessions : StorePersonal(s) \/ StartRun(s)
                              \/ PromptBegins(s) \/ PromptEmbeds(s) \/ PromptEnds(s)
    \/ RunStep \/ Reboot

DocsSpec == DocsInit /\ [][DocsNext]_docVars

-----------------------------------------------------------------------------

(* After a run that succeeded, whatever failed before it, a project sees   *)
(* one document for each of the texts its files had, and no other; files   *)
(* that share a document do not take it from each other.  What a project   *)
(* sees is complete at every moment, chunks and all (index_content writes  *)
(* chunks, row and hash in this order).  Without failures no text is       *)
(* indexed twice, and a prompt cached under the present revision shows     *)
(* what the project sees, unless the session's embeddings are refused.     *)
(* All vectors are of one embedding profile.                               *)
ProjectDocsHold ==
    /\ \A p \in Projects : settled[p] # Unsettled =>
        /\ {docRow[d].text : d \in member[p]} = settled[p]
        /\ Cardinality(member[p]) = Cardinality(settled[p])
    /\ \A p \in Projects : \A d \in member[p] : docRow[d] # NoDocRow /\ chunks[d] = AllChunks
    /\ ~failedRun => \A d, e \in DocIds :
        d # e /\ docRow[d] # NoDocRow => docRow[d].text # docRow[e].text
    /\ ~failedRun /\ indexRun.at = "idle" => \A s \in DocSessions :
        prompt[s].cached /\ prompt[s].cachedRev = revision /\ contract = ProfileOf[s]
            => prompt[s].docs = member[ProjectOf[s]]
    /\ profiles \subseteq {contract}

=============================================================================
