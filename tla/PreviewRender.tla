--------------------------- MODULE PreviewRender ----------------------------
(***************************************************************************)
(* One-VI preview renders over a working tree that may be edited at any    *)
(* time, with the file-backed content-addressed render cache:              *)
(* renderViPreviewForFile (viPreviewFileRender.ts) and                     *)
(* createFileViPreviewCache (viPreviewCache.ts).                           *)
(*                                                                         *)
(* Renders run concurrently: the warm session serializes its own, but the  *)
(* editor's cache-only peeks, renders without a session, other windows and *)
(* the cache CLIs share the cache directory.  The bytes of a file are one  *)
(* of a few contents, a digest is the content it digests, and the document *)
(* of a render is what LabVIEW was given: the target and the staged files. *)
(***************************************************************************)
EXTENDS FiniteSets, ListFilter, PreviewRenderState

File == Vi \cup Dep

renderVars == <<pc, target, cacheOnly, files, digest, staged, workspace, html,
                signature, victims>>
vars == <<tree, edits, renderVars, edited, entries, spared>>

Empty == [f \in {} |-> Nothing]
Ended == {"hit", "miss", "done"}
Existing == {f \in File : tree[f] # Nothing}
Keys == {entries[i].key : i \in DOMAIN entries}

TypeOK ==
    /\ tree \in [File -> Content \cup {Nothing}] /\ edits \in 0..MaxEdits
    /\ pc \in [Render -> {"idle", "planning", "hashing", "lookup", "missed", "copying",
                          "executing", "signing", "cleanup"} \cup Setting \cup Ended]
    /\ target \in [Render -> Vi \cup {Nothing}] /\ cacheOnly \in [Render -> BOOLEAN]
    /\ files \in [Render -> SUBSET File]
    /\ \A r \in Render : digest[r] # Nothing => DOMAIN digest[r] \subseteq files[r]
    /\ \A r \in Render : DOMAIN staged[r] \subseteq files[r]
    /\ workspace \in [Render -> BOOLEAN] /\ edited \in [Render -> BOOLEAN]
    /\ signature \in [Render -> Content \cup {Nothing}]

Init ==
    /\ tree \in [File -> Content]
    /\ edits = 0 /\ entries = <<>> /\ spared = {}
    /\ pc = [r \in Render |-> "idle"]
    /\ target = [r \in Render |-> Nothing]
    /\ cacheOnly = [r \in Render |-> FALSE]
    /\ files = [r \in Render |-> {}]
    /\ digest = [r \in Render |-> Empty]
    /\ staged = [r \in Render |-> Empty]
    /\ workspace = [r \in Render |-> FALSE]
    /\ html = [r \in Render |-> Nothing]
    /\ signature = [r \in Render |-> Nothing]
    /\ victims = [r \in Render |-> {}]
    /\ edited = [r \in Render |-> FALSE]

Goto(r, p) == pc' = [pc EXCEPT ![r] = p]

(* A file is changed, created or deleted by the user. *)
Edit ==
    /\ edits < MaxEdits
    /\ \E f \in File, c \in Content \cup {Nothing} :
          c # tree[f] /\ tree' = [tree EXCEPT ![f] = c]
    /\ edits' = edits + 1
    /\ edited' = [r \in Render |->
                    edited[r] \/ pc[r] \in {"hashing", "lookup", "missed", "copying"}]
    /\ UNCHANGED <<renderVars, entries, spared>>

(* renderViPreviewForFile is called. *)
RenderVi(r) ==
    /\ pc[r] = "idle"
    /\ \E v \in Vi : target' = [target EXCEPT ![r] = v]
    /\ \E b \in BOOLEAN : cacheOnly' = [cacheOnly EXCEPT ![r] = b]
    /\ Goto(r, "planning")
    /\ UNCHANGED <<tree, edits, files, digest, staged, workspace, html, signature,
                   victims, edited, entries, spared>>

(* listSourceFiles and the staging plan: the whole tree, or the VI alone   *)
(* when the tree trips the size guard or cannot be listed.                 *)
PlanStaging(r) ==
    /\ pc[r] = "planning"
    /\ \E fs \in {{target[r]}, {target[r]} \cup Existing} :
          files' = [files EXCEPT ![r] = fs]
    /\ Goto(r, "hashing")
    /\ UNCHANGED <<tree, edits, target, cacheOnly, digest, staged, workspace, html,
                   signature, victims, edited, entries, spared>>

(* computeStagedCacheKey: one file is hashed at a time; a file that cannot *)
(* be hashed leaves the render without a key.                              *)
HashFile(r, f) ==
    /\ pc[r] = "hashing"
    /\ f \in files[r] \ DOMAIN digest[r]
    /\ IF tree[f] = Nothing
       THEN digest' = [digest EXCEPT ![r] = Nothing] /\ Goto(r, "missed")
       ELSE /\ digest' = [digest EXCEPT ![r] =
                            [g \in DOMAIN digest[r] \cup {f} |->
                                IF g = f THEN tree[f] ELSE digest[r][g]]]
            /\ IF files[r] = DOMAIN digest[r] \cup {f} THEN Goto(r, "lookup") ELSE UNCHANGED pc
    /\ UNCHANGED <<tree, edits, target, cacheOnly, files, staged, workspace, html,
                   signature, victims, edited, entries, spared>>

(* What LabVIEW makes of a VI and the files staged with it. *)
RenderingOf(v, content) == [vi |-> v, content |-> content]

(* Mutants: the key does not name the VI; or covers no other file. *)
KeyOfTree(v, content) == [vi |-> Nothing, content |-> content]
KeyOfTheVi(v, content) == [vi |-> v, content |-> [f \in {v} |-> content[v]]]

(* computeViPreviewCacheKey *)
KeyOf(v, content) == [vi |-> v, content |-> content]

Key(r) == KeyOf(target[r], digest[r])

(* cache.get: the document of the key, possibly while it is being written. *)
LookUp(r) ==
    /\ pc[r] = "lookup"
    /\ IF Key(r) \in Keys
       THEN /\ \E i \in DOMAIN entries :
                  entries[i].key = Key(r) /\ html' = [html EXCEPT ![r] = entries[i].html]
            /\ Goto(r, "hit")
       ELSE Goto(r, "missed") /\ UNCHANGED html
    /\ UNCHANGED <<tree, edits, target, cacheOnly, files, digest, staged, workspace,
                   signature, victims, edited, entries, spared>>

(* A miss: a cache-only peek ends here, otherwise a workspace is made. *)
Miss(r) ==
    /\ pc[r] = "missed"
    /\ IF cacheOnly[r]
       THEN Goto(r, "miss") /\ UNCHANGED workspace
       ELSE \/ workspace' = [workspace EXCEPT ![r] = TRUE] /\ Goto(r, "copying")
            \/ Goto(r, "done") /\ UNCHANGED workspace  \* mkdtemp throws
    /\ UNCHANGED <<tree, edits, target, cacheOnly, files, digest, staged, html,
                   signature, victims, edited, entries, spared>>

(* One file is copied at a time; a file that is gone makes the render throw. *)
CopyFile(r, f) ==
    /\ pc[r] = "copying"
    /\ f \in files[r] \ DOMAIN staged[r]
    /\ IF tree[f] = Nothing
       THEN Goto(r, "cleanup") /\ UNCHANGED staged
       ELSE /\ staged' = [staged EXCEPT ![r] =
                            [g \in DOMAIN staged[r] \cup {f} |->
                                IF g = f THEN tree[f] ELSE staged[r][g]]]
            /\ IF files[r] = DOMAIN staged[r] \cup {f} THEN Goto(r, "executing") ELSE UNCHANGED pc
    /\ UNCHANGED <<tree, edits, target, cacheOnly, files, digest, workspace, html,
                   signature, victims, edited, entries, spared>>

(* LabVIEW renders the staged copy and the report is read, or it fails. *)
Execute(r) ==
    /\ pc[r] = "executing"
    /\ \/ /\ html' = [html EXCEPT ![r] = RenderingOf(target[r], staged[r])]
          /\ Goto(r, IF digest[r] # Nothing THEN "store" ELSE "signing")
       \/ Goto(r, "cleanup") /\ UNCHANGED html
    /\ UNCHANGED <<tree, edits, target, cacheOnly, files, digest, staged, workspace,
                   signature, victims, edited, entries, spared>>

Entry == {entries[i] : i \in DOMAIN entries}
Others(keys) == Without(entries, {e \in Entry : e.key \in keys})
Newest(e) == Append(Others({e.key}), e)

(* cache.set: the file is truncated, or cannot be opened (best-effort).    *)
SetBegins(r) ==
    /\ pc[r] = "store"
    /\ \/ entries' = Newest([key |-> Key(r), html |-> Torn, by |-> r]) /\ Goto(r, "writing")
       \/ Goto(r, "signing") /\ UNCHANGED entries
    /\ UNCHANGED <<tree, edits, target, cacheOnly, files, digest, staged, workspace,
                   html, signature, victims, edited, spared>>

(* The document is written; if the file was evicted meanwhile, into        *)
(* nothing.  A write that fails leaves the file torn and evicts nothing.   *)
SetEnds(r) ==
    /\ pc[r] = "writing"
    /\ \/ /\ entries' = IF Key(r) \in Keys
                        THEN Newest([key |-> Key(r), html |-> html[r], by |-> r])
                        ELSE entries
          /\ Goto(r, "listing")
          /\ UNCHANGED spared
       \/ /\ spared' = spared \cup {Key(r)}
          /\ Goto(r, "signing")
          /\ UNCHANGED entries
    /\ UNCHANGED <<tree, edits, target, cacheOnly, files, digest, staged, workspace,
                   html, signature, victims, edited>>

(* Mutant: one document too many is kept. *)
OneTooFew(n) == IF n > MaxEntries + 1 THEN n - MaxEntries - 1 ELSE 0

EvictCount(n) == IF n > MaxEntries THEN n - MaxEntries ELSE 0

Older(k, l) == \E i, j \in DOMAIN entries : i < j /\ entries[i].key = k /\ entries[j].key = l

(* evictExcess: the oldest documents beyond maxEntries, those whose time   *)
(* could not be read first.                                                *)
Excess(unread) ==
    {old \in SUBSET Keys :
        /\ Cardinality(old) = EvictCount(Cardinality(Keys))
        /\ \A k \in old, l \in Keys \ old : k \in unread \/ (l \notin unread /\ Older(k, l))}

(* evictExcess lists the directory and stats its files; it ends here if    *)
(* the render's cache has no limit (maxEntries <= 0, the warm worker) or   *)
(* the directory cannot be listed ...                                      *)
EvictList(r) ==
    /\ pc[r] = "listing"
    /\ \/ /\ \E unread \in SUBSET Keys : \E old \in Excess(unread) :
                victims' = [victims EXCEPT ![r] = old]
          /\ spared' = {}
          /\ Goto(r, "evicting")
       \/ /\ spared' = spared \cup {Key(r)}
          /\ Goto(r, "signing")
          /\ UNCHANGED victims
    /\ UNCHANGED <<tree, edits, target, cacheOnly, files, digest, staged, workspace,
                   html, signature, edited, entries>>

(* ... and removes what it selected, whatever was written since, except    *)
(* what it fails to remove.                                                *)
EvictRemove(r) ==
    /\ pc[r] = "evicting"
    /\ \E kept \in SUBSET victims[r] :
          entries' = Others(victims[r] \ kept) /\ spared' = spared \cup kept
    /\ victims' = [victims EXCEPT ![r] = {}]
    /\ Goto(r, "signing")
    /\ UNCHANGED <<tree, edits, target, cacheOnly, files, digest, staged, workspace,
                   html, signature, edited>>

(* Mutants: the working tree is signed; the whole staged tree is signed. *)
SourceBytes(r) == tree[target[r]]

SignedBytes(r) == staged[r][target[r]]

(* The content signature of the rendered VI (undefined if hashing fails). *)
Sign(r) ==
    /\ pc[r] = "signing"
    /\ \E s \in {SignedBytes(r), Nothing} : signature' = [signature EXCEPT ![r] = s]
    /\ Goto(r, "cleanup")
    /\ UNCHANGED <<tree, edits, target, cacheOnly, files, digest, staged, workspace,
                   html, victims, edited, entries, spared>>

Removed(r) == [workspace EXCEPT ![r] = FALSE]

(* The `finally`: the workspace directory is removed (best-effort). *)
Cleanup(r) ==
    /\ pc[r] = "cleanup"
    /\ workspace' \in {workspace, Removed(r)}
    /\ Goto(r, "done")
    /\ UNCHANGED <<tree, edits, target, cacheOnly, files, digest, staged, html,
                   signature, victims, edited, entries, spared>>

(* Every render has ended. *)
AtRest == (\A r \in Render : pc[r] \in Ended) /\ UNCHANGED vars

Step(r) ==
    \/ PlanStaging(r) \/ LookUp(r) \/ Miss(r) \/ Execute(r)
    \/ \E f \in File : HashFile(r, f) \/ CopyFile(r, f)
    \/ SetBegins(r) \/ SetEnds(r) \/ EvictList(r) \/ EvictRemove(r)
    \/ Sign(r) \/ Cleanup(r)

Next == Edit \/ AtRest \/ \E r \in Render : RenderVi(r) \/ Step(r)

Spec == Init /\ [][Next]_vars
=============================================================================
