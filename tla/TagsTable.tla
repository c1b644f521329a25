------------------------------ MODULE TagsTable ------------------------------
(* The tags table (tagstable.h, tagstable.cc): TagsResult objects reached    *)
(* through map_, filemap_ and findfilemap_, and the files known and loaded.  *)
(* A tag file is read one declaration at a time; the caller holds the mutex  *)
(* of LocalTagsRequestHandler, or is the only thread.                        *)
(*                                                                           *)
(* A result is an address that malloc may hand out again.  Header values     *)
(* (comment, corpus, features, the default for callers), line numbers and    *)
(* snippets are left out: no lookup depends on them.                         *)
EXTENDS Naturals, Sequences, FiniteSets

CONSTANTS Files,     \* names, as sequences of characters
          Dirs,      \* arguments of UnloadFilesInDir, likewise
          Tags,
          Results,   \* addresses of TagsResult objects
          Freed,     \* what is at an address without an object
          MaxItems,  \* bound: how often a file declares one tag
          FindFileFlag, MaxResults, \* the flags --findfile and --max_results
          Absent     \* see TagsRelation

ASSUME TagsTableAssumption ==
  /\ IsFiniteSet(Results)
  /\ Files \subseteq Seq(STRING) /\ Dirs \subseteq Seq(STRING)
  /\ Freed \notin [tag : Tags, file : Files]
  /\ Absent \notin [Tags -> Nat]
  /\ MaxItems \in Nat /\ MaxResults \in Nat /\ FindFileFlag \in BOOLEAN

VARIABLES
  fileindex,  \* enable_fileindex_
  table,      \* the indices and the objects they point to
  loading,    \* what LoadTagFile reads: nothing (no), headers, or files
  died        \* the CHECK that ended the process: no, unload, or format

vars == <<fileindex, table, loading, died>>

HasPrefixString(str, prefix) ==
  Len(prefix) <= Len(str) /\ SubSeq(str, 1, Len(prefix)) = prefix

Basename(f) ==
  LET slashes == {i \in 1 .. Len(f) : f[i] = "/"}
      last == IF slashes = {} THEN 0
              ELSE CHOOSE i \in slashes : \A j \in slashes : j <= i
  IN SubSeq(f, last + 1, Len(f))

(* The table after Initialize, and after FreeData.                           *)
Empty == [fileset     |-> {},
          loaded      |-> {},
          map         |-> {},
          indexed     |-> {},                          \* the keys of filemap_
          filemap     |-> [f \in Files |-> {}],
          findfilemap |-> [f \in Files |-> 0],         \* entries per file
          heap        |-> [r \in Results |-> Freed]]

Init ==
  /\ fileindex \in BOOLEAN
  /\ table = Empty
  /\ loading = "no"
  /\ died = "no"

-----------------------------------------------------------------------------
(* The results that UnloadFile deletes: found through filemap_ or, without   *)
(* the file index, by a scan of map_.                                        *)
ResultsOf(t, fs) ==
  IF fileindex THEN UNION {t.filemap[f] : f \in fs}
               ELSE {r \in t.map : t.heap[r].file \in fs}

(* Mutant of UnloadFiles: the results stay in map_.                          *)
UnloadFilesKeepsMap(t, fs) ==
  LET gone == fs \cap t.loaded
  IN [t EXCEPT !.findfilemap = [f \in Files |-> IF f \in gone THEN 0 ELSE @[f]],
               !.heap        = [r \in Results |->
                                  IF r \in ResultsOf(t, gone) THEN Freed ELSE @[r]],
               !.filemap     = [f \in Files |-> IF f \in gone THEN {} ELSE @[f]],
               !.indexed     = @ \ gone,
               !.loaded      = @ \ gone]

(* UnloadFile for each of the files: those that are loaded leave every       *)
(* index, and their results are deleted.  Their names stay in fileset_.      *)
UnloadFiles(t, fs) ==
  LET gone == fs \cap t.loaded
  IN [t EXCEPT !.findfilemap = [f \in Files |-> IF f \in gone THEN 0 ELSE @[f]],
               !.map         = @ \ ResultsOf(t, gone),
               !.heap        = [r \in Results |->
                                  IF r \in ResultsOf(t, gone) THEN Freed ELSE @[r]],
               !.filemap     = [f \in Files |-> IF f \in gone THEN {} ELSE @[f]],
               !.indexed     = @ \ gone,
               !.loaded      = @ \ gone]

(* The CHECK of UnloadFile.                                                  *)
CheckFails(t, fs) == fileindex /\ ~(fs \cap t.loaded \subseteq t.indexed)

Unload(t, fs) ==
  /\ table' = UnloadFiles(t, fs)
  /\ died' = IF CheckFails(t, fs) THEN "unload" ELSE died

(* FileGet.                                                                  *)
Known(t, f) == [t EXCEPT !.fileset = @ \cup {f}]

-----------------------------------------------------------------------------
(* LoadTagFile: its first expression must be the format version.  A          *)
(* malformed file ends the process (CHECK).                                  *)
LoadTagFile(readable) ==
  /\ loading' = "headers"
  /\ died' = IF readable THEN died ELSE "format"

(* Mutant of ReloadTagFile: FreeData leaves findfilemap_ as it was.          *)
ReloadKeepsFiles(readable) ==
  /\ loading = "no"
  /\ table' = [Empty EXCEPT !.findfilemap = table.findfilemap]
  /\ LoadTagFile(readable)
  /\ UNCHANGED fileindex

(* ReloadTagFile frees everything first; every result is in map_, so that    *)
(* nothing is left.                                                          *)
ReloadTagFile(readable) ==
  /\ loading = "no"
  /\ table' = [Empty EXCEPT !.heap = [r \in Results |->
                 IF r \in table.map THEN Freed ELSE table.heap[r]]]
  /\ LoadTagFile(readable)
  /\ UNCHANGED fileindex

UpdateTagFile(readable) ==
  /\ loading = "no"
  /\ LoadTagFile(readable)
  /\ UNCHANGED <<fileindex, table>>

(* A header before the files changes nothing that is modelled; one after a   *)
(* file, or a declaration that is not one, fails a CHECK.                    *)
ParseHeaderDeclaration(malformed) ==
  /\ loading # "no"
  /\ died' = IF malformed \/ loading = "files" THEN "format" ELSE died
  /\ UNCHANGED <<fileindex, table, loading>>

(* The file is entered in the indices with a new result for each item.       *)
AddFile(t, f, new, tagOf) ==
  [t EXCEPT !.loaded      = @ \cup {f},
            !.map         = @ \cup new,
            !.heap        = [r \in Results |->
                               IF r \in new THEN [tag |-> tagOf[r], file |-> f]
                                            ELSE @[r]],
            !.findfilemap = [@ EXCEPT ![f] = t.findfilemap[f]
                                              + IF FindFileFlag THEN Cardinality(new) ELSE 0],
            !.indexed     = IF fileindex THEN @ \cup {f} ELSE @,
            !.filemap     = IF fileindex THEN [@ EXCEPT ![f] = new] ELSE @]

Unused(t) == {r \in Results : t.heap[r] = Freed}

(* ParseItemDeclaration for each of the contents: counts[t] items have tag t.*)
Parsed(t, f, counts, parsed) ==
  \E new \in SUBSET Unused(t) : \E tagOf \in [new -> Tags] :
    /\ \A g \in Tags : Cardinality({r \in new : tagOf[r] = g}) = counts[g]
    /\ parsed = AddFile(t, f, new, tagOf)

(* Mutant of ParseFileDeclaration: what was loaded of the file stays.        *)
ParseFileKeepsOld(f, counts) ==
  /\ loading # "no"
  /\ loading' = "files"
  /\ Parsed(Known(table, f), f, counts, table')
  /\ UNCHANGED <<fileindex, died>>

ParseFileDeclaration(f, counts) ==
  /\ loading # "no"
  /\ loading' = "files"
  /\ LET known == Known(table, f)
     IN /\ died' = IF CheckFails(known, {f}) THEN "unload" ELSE died
        /\ Parsed(UnloadFiles(known, {f}), f, counts, table')
  /\ UNCHANGED fileindex

ParseDeletedDeclaration(f) ==
  /\ loading # "no"
  /\ loading' = "files"
  /\ Unload(Known(table, f), {f})
  /\ UNCHANGED fileindex

(* The end of the tag file.                                                  *)
EndOfTagFile ==
  /\ loading # "no"
  /\ loading' = "no"
  /\ UNCHANGED <<fileindex, table, died>>

Matching(d) == {f \in table.fileset : HasPrefixString(f, d)}

UnloadFilesInDir(d) ==
  /\ loading = "no"
  /\ Unload(table, Matching(d))
  /\ UNCHANGED <<fileindex, loading>>

Counts == [Tags -> 0 .. MaxItems]

Next ==
  /\ died = "no"
  /\ \/ \E ok \in BOOLEAN : \/ ReloadTagFile(ok) \/ UpdateTagFile(ok)
                           \/ ParseHeaderDeclaration(ok)
     \/ \E f \in Files : \/ \E counts \in Counts : ParseFileDeclaration(f, counts)
                         \/ ParseDeletedDeclaration(f)
     \/ EndOfTagFile
     \/ \E d \in Dirs : UnloadFilesInDir(d)

Spec == Init /\ [][Next]_vars

-----------------------------------------------------------------------------
(* The lookups.  Each stops after max_results entries; findfilemap_ may      *)
(* have several for a file.                                                  *)
Cut(rs) == {cut \in SUBSET rs :
              \/ cut = rs /\ Cardinality(rs) <= MaxResults
              \/ Cardinality(cut) = MaxResults}

FindTags(t) == {r \in table.map : table.heap[r].tag = t}

(* FindRegexpTags and FindSnippetMatches: the expression, or the prefix,     *)
(* matches a set of tags, or of tags by their snippets.                      *)
FindRegexpTags(matched) == UNION {FindTags(t) : t \in matched}

FindTagsByFile(f) == IF f \in table.indexed THEN table.filemap[f] ELSE {}

FindFile(base) ==
  {f \in Files : table.findfilemap[f] > 0 /\ Basename(f) = base}

(* Type correctness.                                                         *)
TypeOK ==
  /\ fileindex \in BOOLEAN
  /\ loading \in {"no", "headers", "files"}
  /\ died \in {"no", "unload", "format"}
  /\ table \in [fileset     : SUBSET Files,
                loaded      : SUBSET Files,
                map         : SUBSET Results,
                indexed     : SUBSET Files,
                filemap     : [Files -> SUBSET Results],
                findfilemap : [Files -> Nat],
                heap        : [Results -> [tag : Tags, file : Files] \cup {Freed}]]

(* Every result that was made and not deleted is in map_, and every index    *)
(* leads to such results only: no lookup meets a deleted one, and FreeData,  *)
(* which goes through map_, leaves none behind.                              *)
ResultsOwned ==
  /\ table.map = {r \in Results : table.heap[r] # Freed}
  /\ \A f \in Files : table.filemap[f] \subseteq table.map

(* The indices give the same answers after any sequence of loads, updates    *)
(* and unloads: by file as by tag, by base name the loaded files with tags;  *)
(* a loaded file is known, so that an unload of its directory finds it, and  *)
(* the CHECK of UnloadFile does not end the process.                         *)
IndicesAgree ==
  /\ fileindex => \A f \in Files :
       FindTagsByFile(f) = {r \in UNION {FindTags(t) : t \in Tags} :
                              table.heap[r].file = f}
  /\ FindFileFlag => \A f \in Files :
       f \in FindFile(Basename(f)) <=> \E r \in table.map : table.heap[r].file = f
  /\ \A r \in table.map : table.heap[r].file \in table.loaded
  /\ table.loaded \subseteq table.fileset
  /\ died # "unload"

(* Refinement: read through map_, the table is the relation of TagsRelation; *)
(* a step changes the files it names, as a whole, and no other.              *)
Content ==
  [f \in Files |->
     IF f \in table.loaded
     THEN [t \in Tags |-> Cardinality({r \in FindTags(t) : table.heap[r].file = f})]
     ELSE Absent]

Named == [d \in Dirs |-> {f \in Files : HasPrefixString(f, d)}]

Relation == INSTANCE TagsRelation WITH content <- Content

ImplementsRelation == Relation!RelationSpec

=============================================================================
