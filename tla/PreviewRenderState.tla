------------------------- MODULE PreviewRenderState --------------------------
(***************************************************************************)
(* What the renders of PreviewRender keep, and what is promised of it: the *)
(* cache directory and the documents that the renders return.              *)
(***************************************************************************)
EXTENDS Integers, Sequences, FiniteSets

CONSTANTS Render,     \* the calls of renderViPreviewForFile
          Vi, Dep,    \* the VIs of one staging root, its other source files
          Content,    \* the contents a file can have
          Nothing,    \* undefined; no such file
          Torn,       \* a document that is being written
          MaxEdits,   \* bound: edits of the working tree
          MaxEntries  \* the maxEntries of the caches that have a limit

ASSUME CacheAssumption == MaxEntries \in Nat \ {0} /\ MaxEdits \in Nat /\ Nothing \notin Content

VARIABLES tree,    \* the working tree: File -> Content or Nothing
          edits,   \* bounded history: how many edits there were
          pc, target, cacheOnly,
          files,   \* the staging plan
          digest,  \* the digests taken so far; Nothing once one failed
          staged,  \* the copies made so far
          workspace, \* the workspace directory exists
          html,    \* the document the render returns
          signature, \* the contentSignature it returns
          victims, \* the cache entries its eviction has selected
          edited,  \* history: the tree changed between planning and copying
          entries, \* the cache directory, oldest document first
          spared   \* history: what no eviction selected or could remove since
                   \* the directory was last listed

(* The phases of a render that store its document. *)
Setting == {"store", "writing", "listing", "evicting"}
-----------------------------------------------------------------------------
Document(h) == h # Nothing /\ h # Torn

(* The cache is content-addressed: a document stored by a render whose     *)
(* files were not edited under it is the rendering of exactly its key.     *)
KeyedContent ==
    \A i \in DOMAIN entries :
        LET e == entries[i]
        IN  (Document(e.html) /\ ~edited[e.by]) => e.html = e.key

(* No render returns the document of another VI, also when both stage the  *)
(* same files (#646).                                                      *)
ServesItsTarget ==
    \A r \in Render : Document(html[r]) => html[r].vi = target[r]

(* The exact-frame guard (#2363): the signature a live render returns is   *)
(* that of the VI bytes its document shows, edits notwithstanding.         *)
SignatureOfTheFrame ==
    \A r \in Render : signature[r] # Nothing => signature[r] = html[r].content[target[r]]

(* Whatever sets overlap, once none is in progress the cache is within its *)
(* limit, but for the documents of failed or unlimited sets and those that *)
(* could not be removed; the next eviction that can list the directory     *)
(* selects the excess of these too.                                        *)
CacheBounded ==
    (\A r \in Render : pc[r] \notin Setting \ {"store"}) =>
        Cardinality({entries[i].key : i \in DOMAIN entries} \ spared) <= MaxEntries
=============================================================================
