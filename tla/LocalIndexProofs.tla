--------------------------- MODULE LocalIndexProofs ---------------------------
(* Theorems about TagsTable, for any names, addresses and flags: no index    *)
(* leads to a deleted result, the indices agree, and the table implements    *)
(* TagsRelation.  The inductive invariant TableOK says for each index what   *)
(* it holds in terms of the heap alone.                                      *)
(* Then theorems about LocalIndex, for any files, clients and bounds: the    *)
(* three threads use the table as TagsTable says, so that what is proved of  *)
(* it holds here; files of a removed directory stay out of it; an answer is  *)
(* what the table holds; and at rest the table shows each file as it is on   *)
(* disk, except the files of stale.                                          *)
EXTENDS LocalIndex, FiniteSetTheorems, SequenceTheorems, WellFoundedInduction, TLAPS

Objects == [tag : Tags, file : Files]

TableType ==
  [fileset     : SUBSET Files,
   loaded      : SUBSET Files,
   map         : SUBSET Results,
   indexed     : SUBSET Files,
   filemap     : [Files -> SUBSET Results],
   findfilemap : [Files -> Nat],
   heap        : [Results -> Objects \cup {Freed}]]

(* The results of one file.                                                  *)
OfFile(t, f) == {r \in t.map : t.heap[r].file = f}

(* What holds of every table, with the file index or without it.             *)
TableOK(t, withIndex) ==
  /\ t \in TableType
  /\ t.map = {r \in Results : t.heap[r] # Freed}
  /\ \A f \in Files : t.filemap[f] = IF withIndex THEN OfFile(t, f) ELSE {}
  /\ withIndex => t.indexed = t.loaded
  /\ FindFileFlag => \A f \in Files : t.findfilemap[f] > 0 <=> OfFile(t, f) # {}
  /\ \A r \in t.map : t.heap[r].file \in t.loaded
  /\ t.loaded \subseteq t.fileset

TTInv ==
  /\ fileindex \in BOOLEAN
  /\ loading \in {"no", "headers", "files"}
  /\ died \in {"no", "format"}
  /\ TableOK(table, fileindex)

-----------------------------------------------------------------------------
(* What is in the heap of a table.                                           *)
LEMMA MapObjects ==
  ASSUME NEW t, NEW withIndex \in BOOLEAN, TableOK(t, withIndex), NEW r \in t.map
  PROVE  /\ r \in Results
         /\ t.heap[r] \in Objects
         /\ t.heap[r].tag \in Tags
         /\ t.heap[r].file \in Files
         /\ t.heap[r] # Freed
<1>1. r \in Results /\ t.heap[r] # Freed /\ t.heap[r] \in Objects \cup {Freed}
  BY DEF TableOK, TableType
<1>2. t.heap[r] \in Objects
  BY <1>1
<1> QED
  BY <1>1, <1>2 DEF Objects

(* The initial table, also what is left after FreeData.                      *)
LEMMA EmptyOK ==
  ASSUME NEW withIndex \in BOOLEAN
  PROVE  TableOK(Empty, withIndex)
<1>1. Empty \in TableType
  BY DEF Empty, TableType
<1>2. Empty.map = {} /\ Empty.loaded = {} /\ Empty.indexed = {} /\ Empty.fileset = {}
  BY DEF Empty
<1>3. Empty.map = {r \in Results : Empty.heap[r] # Freed}
  BY DEF Empty
<1>4. \A f \in Files : OfFile(Empty, f) = {}
  BY <1>2 DEF OfFile
<1>5. \A f \in Files : Empty.filemap[f] = {} /\ Empty.findfilemap[f] = 0
  BY DEF Empty
<1>6. \A f \in Files : Empty.filemap[f] = IF withIndex THEN OfFile(Empty, f) ELSE {}
  BY <1>4, <1>5
<1>7. \A f \in Files : Empty.findfilemap[f] > 0 <=> OfFile(Empty, f) # {}
  BY <1>4, <1>5
<1> QED
  BY <1>1, <1>2, <1>3, <1>6, <1>7 DEF TableOK

(* A new name in fileset_.                                                   *)
LEMMA KnownOK ==
  ASSUME NEW t, NEW withIndex \in BOOLEAN, TableOK(t, withIndex), NEW f \in Files
  PROVE  /\ TableOK(Known(t, f), withIndex)
         /\ f \in Known(t, f).fileset
         /\ Known(t, f).loaded = t.loaded
         /\ Known(t, f).map = t.map
         /\ Known(t, f).heap = t.heap
<1> DEFINE k == Known(t, f)
<1>1. t \in TableType
  BY DEF TableOK
<1>2. /\ k.fileset = t.fileset \cup {f} /\ k.loaded = t.loaded /\ k.map = t.map
      /\ k.indexed = t.indexed /\ k.filemap = t.filemap
      /\ k.findfilemap = t.findfilemap /\ k.heap = t.heap
      /\ k \in TableType
  BY <1>1 DEF Known, TableType
<1>3. \A g \in Files : OfFile(k, g) = OfFile(t, g)
  BY <1>2 DEF OfFile
<1> HIDE DEF k
<1>4. TableOK(k, withIndex)
  BY <1>2, <1>3 DEF TableOK
<1> QED
  BY <1>2, <1>4 DEF k

(* The fields of the table after an unload.                                  *)
LEMMA UnloadFields ==
  ASSUME NEW t \in TableType, NEW fs
  PROVE  LET gone == fs \cap t.loaded
             u    == UnloadFiles(t, fs)
         IN /\ u.fileset = t.fileset
            /\ u.loaded = t.loaded \ gone
            /\ u.map = t.map \ ResultsOf(t, gone)
            /\ u.indexed = t.indexed \ gone
            /\ u.filemap = [f \in Files |-> IF f \in gone THEN {} ELSE t.filemap[f]]
            /\ u.findfilemap = [f \in Files |-> IF f \in gone THEN 0 ELSE t.findfilemap[f]]
            /\ u.heap = [r \in Results |-> IF r \in ResultsOf(t, gone) THEN Freed ELSE t.heap[r]]
            /\ u \in TableType
<1> DEFINE gone == fs \cap t.loaded
<1> DEFINE rs == ResultsOf(t, gone)
<1> DEFINE u == UnloadFiles(t, fs)
<1>1. u = [t EXCEPT !.findfilemap = [f \in Files |-> IF f \in gone THEN 0 ELSE t.findfilemap[f]],
                    !.map = t.map \ rs,
                    !.heap = [r \in Results |-> IF r \in rs THEN Freed ELSE t.heap[r]],
                    !.filemap = [f \in Files |-> IF f \in gone THEN {} ELSE t.filemap[f]],
                    !.indexed = t.indexed \ gone,
                    !.loaded = t.loaded \ gone]
  BY Zenon DEF UnloadFiles
<1> HIDE DEF gone, rs, u
<1>2. /\ u.fileset = t.fileset
      /\ u.loaded = t.loaded \ gone
      /\ u.map = t.map \ rs
      /\ u.indexed = t.indexed \ gone
      /\ u.filemap = [f \in Files |-> IF f \in gone THEN {} ELSE t.filemap[f]]
      /\ u.findfilemap = [f \in Files |-> IF f \in gone THEN 0 ELSE t.findfilemap[f]]
      /\ u.heap = [r \in Results |-> IF r \in rs THEN Freed ELSE t.heap[r]]
  BY <1>1 DEF TableType
<1>3. u \in TableType
  BY <1>1 DEF TableType
<1> QED
  BY <1>2, <1>3 DEF gone, rs, u

(* Both ways to find the results of files find the same.                     *)
LEMMA ResultsOfFiles ==
  ASSUME fileindex \in BOOLEAN, NEW t, TableOK(t, fileindex), NEW fs \in SUBSET Files
  PROVE  ResultsOf(t, fs) = {r \in t.map : t.heap[r].file \in fs}
<1>1. CASE fileindex
  <2>1. ResultsOf(t, fs) = UNION {t.filemap[f] : f \in fs}
    BY <1>1 DEF ResultsOf
  <2>2. \A f \in Files : t.filemap[f] = {r \in t.map : t.heap[r].file = f}
    BY <1>1 DEF TableOK, OfFile
  <2> QED
    BY <2>1, <2>2
<1>2. CASE ~fileindex
  BY <1>2 DEF ResultsOf
<1> QED
  BY <1>1, <1>2

(* An unload keeps the table in order, and finds the files it unloads.       *)
LEMMA UnloadOK ==
  ASSUME fileindex \in BOOLEAN, NEW t, TableOK(t, fileindex), NEW fs \in SUBSET Files
  PROVE  /\ TableOK(UnloadFiles(t, fs), fileindex)
         /\ ~CheckFails(t, fs)
         /\ UnloadFiles(t, fs).fileset = t.fileset
         /\ UnloadFiles(t, fs).loaded = t.loaded \ fs
         /\ UnloadFiles(t, fs).map = {r \in t.map : t.heap[r].file \notin fs}
         /\ \A r \in UnloadFiles(t, fs).map : UnloadFiles(t, fs).heap[r] = t.heap[r]
<1> DEFINE gone == fs \cap t.loaded
<1> DEFINE rs == ResultsOf(t, gone)
<1> DEFINE u == UnloadFiles(t, fs)
<1>1. t \in TableType
  BY DEF TableOK
<1>2. /\ u.fileset = t.fileset
      /\ u.loaded = t.loaded \ gone
      /\ u.map = t.map \ rs
      /\ u.indexed = t.indexed \ gone
      /\ u.filemap = [f \in Files |-> IF f \in gone THEN {} ELSE t.filemap[f]]
      /\ u.findfilemap = [f \in Files |-> IF f \in gone THEN 0 ELSE t.findfilemap[f]]
      /\ u.heap = [r \in Results |-> IF r \in rs THEN Freed ELSE t.heap[r]]
      /\ u \in TableType
  BY <1>1, UnloadFields
<1>3. gone \in SUBSET Files
  OBVIOUS
<1>4. rs = {r \in t.map : t.heap[r].file \in gone}
  BY <1>3, ResultsOfFiles
<1>5. ~CheckFails(t, fs)
  BY DEF CheckFails, TableOK
<1> HIDE DEF rs, u
<1>6. \A r \in t.map : t.heap[r].file \in t.loaded
  BY DEF TableOK
<1>7. u.map = {r \in t.map : t.heap[r].file \notin fs}
  BY <1>2, <1>4, <1>6
<1>8. \A r \in u.map : r \in Results /\ u.heap[r] = t.heap[r]
  BY <1>1, <1>2 DEF TableType
<1>9. \A f \in Files : OfFile(u, f) = IF f \in gone THEN {} ELSE OfFile(t, f)
  BY <1>2, <1>4, <1>8 DEF OfFile
<1> HIDE DEF gone
<1>10. u.map = {r \in Results : u.heap[r] # Freed}
  BY <1>2 DEF TableOK
<1>11. \A f \in Files : u.filemap[f] = IF fileindex THEN OfFile(u, f) ELSE {}
  BY <1>2, <1>9 DEF TableOK
<1>12. fileindex => u.indexed = u.loaded
  BY <1>2 DEF TableOK
<1>13. FindFileFlag => \A f \in Files : u.findfilemap[f] > 0 <=> OfFile(u, f) # {}
  <2> SUFFICES ASSUME FindFileFlag, NEW f \in Files
               PROVE  u.findfilemap[f] > 0 <=> OfFile(u, f) # {}
    OBVIOUS
  <2>1. u.findfilemap[f] = IF f \in gone THEN 0 ELSE t.findfilemap[f]
    BY <1>2
  <2>2. t.findfilemap[f] > 0 <=> OfFile(t, f) # {}
    BY DEF TableOK
  <2> QED
    BY <2>1, <2>2, <1>9
<1>14. \A r \in u.map : u.heap[r].file \in u.loaded
  BY <1>2, <1>6, <1>7, <1>8 DEF gone
<1>15. u.loaded \subseteq u.fileset
  BY <1>2 DEF TableOK
<1>16. TableOK(u, fileindex)
  BY <1>2, <1>10, <1>11, <1>12, <1>13, <1>14, <1>15 DEF TableOK
<1>17. u.loaded = t.loaded \ fs
  BY <1>2 DEF gone
<1> QED
  BY <1>2, <1>5, <1>7, <1>8, <1>16, <1>17 DEF u

(* The fields of the table after a file was entered in the indices.          *)
LEMMA AddFields ==
  ASSUME NEW t \in TableType, NEW f \in Files,
         NEW new \in SUBSET Results, NEW tagOf \in [new -> Tags]
  PROVE  LET a == AddFile(t, f, new, tagOf)
         IN /\ a.fileset = t.fileset
            /\ a.loaded = t.loaded \cup {f}
            /\ a.map = t.map \cup new
            /\ a.indexed = IF fileindex THEN t.indexed \cup {f} ELSE t.indexed
            /\ a.filemap = IF fileindex THEN [t.filemap EXCEPT ![f] = new] ELSE t.filemap
            /\ a.findfilemap = [t.findfilemap EXCEPT ![f] =
                                  @ + IF FindFileFlag THEN Cardinality(new) ELSE 0]
            /\ a.heap = [r \in Results |-> IF r \in new THEN [tag |-> tagOf[r], file |-> f]
                                                         ELSE t.heap[r]]
            /\ a \in TableType
<1> DEFINE h == [r \in Results |-> IF r \in new THEN [tag |-> tagOf[r], file |-> f] ELSE t.heap[r]]
<1> DEFINE n == [t.findfilemap EXCEPT ![f] = t.findfilemap[f] + IF FindFileFlag THEN Cardinality(new) ELSE 0]
<1> DEFINE i == IF fileindex THEN t.indexed \cup {f} ELSE t.indexed
<1> DEFINE m == IF fileindex THEN [t.filemap EXCEPT ![f] = new] ELSE t.filemap
<1> DEFINE a == AddFile(t, f, new, tagOf)
<1>1. a = [t EXCEPT !.loaded = t.loaded \cup {f}, !.map = t.map \cup new,
                    !.heap = h, !.findfilemap = n, !.indexed = i, !.filemap = m]
  BY DEF AddFile
<1>2. h \in [Results -> Objects \cup {Freed}]
  BY DEF TableType, Objects
<1>3. Cardinality(new) \in Nat
  BY TagsTableAssumption, FS_Subset, FS_CardinalityType
<1>4. n \in [Files -> Nat]
  BY <1>3 DEF TableType
<1>5. i \in SUBSET Files /\ m \in [Files -> SUBSET Results]
  BY DEF TableType
<1> HIDE DEF h, n, i, m, a
<1>6. /\ a.fileset = t.fileset /\ a.loaded = t.loaded \cup {f}
      /\ a.map = t.map \cup new /\ a.indexed = i /\ a.filemap = m
      /\ a.findfilemap = n /\ a.heap = h
  BY <1>1 DEF TableType
<1>7. a \in TableType
  BY <1>1, <1>2, <1>4, <1>5 DEF TableType
<1> QED
  BY <1>6, <1>7 DEF h, n, i, m, a

(* New objects for a file that has none keep the table in order.             *)
LEMMA AddOK ==
  ASSUME fileindex \in BOOLEAN, NEW t, TableOK(t, fileindex),
         NEW f \in t.fileset, f \notin t.loaded,
         NEW new \in SUBSET Unused(t), NEW tagOf \in [new -> Tags]
  PROVE  /\ TableOK(AddFile(t, f, new, tagOf), fileindex)
         /\ AddFile(t, f, new, tagOf).loaded = t.loaded \cup {f}
         /\ AddFile(t, f, new, tagOf).map = t.map \cup new
         /\ \A r \in t.map : AddFile(t, f, new, tagOf).heap[r] = t.heap[r]
         /\ \A r \in new : AddFile(t, f, new, tagOf).heap[r] = [tag |-> tagOf[r], file |-> f]
<1> DEFINE a == AddFile(t, f, new, tagOf)
<1>1. t \in TableType /\ f \in Files
  BY DEF TableOK, TableType
<1>2. new \in SUBSET Results /\ new \cap t.map = {}
  BY DEF Unused, TableOK
<1>3. /\ a.fileset = t.fileset
      /\ a.loaded = t.loaded \cup {f}
      /\ a.map = t.map \cup new
      /\ a.indexed = IF fileindex THEN t.indexed \cup {f} ELSE t.indexed
      /\ a.filemap = IF fileindex THEN [t.filemap EXCEPT ![f] = new] ELSE t.filemap
      /\ a.findfilemap = [t.findfilemap EXCEPT ![f] =
                            @ + IF FindFileFlag THEN Cardinality(new) ELSE 0]
      /\ a.heap = [r \in Results |-> IF r \in new THEN [tag |-> tagOf[r], file |-> f]
                                                   ELSE t.heap[r]]
      /\ a \in TableType
  BY <1>1, <1>2, AddFields
<1> HIDE DEF a
<1>4. \A r \in t.map : r \in Results /\ r \notin new /\ a.heap[r] = t.heap[r]
  BY <1>1, <1>2, <1>3 DEF TableType
<1>5. \A r \in new : r \in Results /\ a.heap[r] = [tag |-> tagOf[r], file |-> f]
  BY <1>2, <1>3
<1>a. \A r \in new : a.heap[r].file = f /\ a.heap[r].tag \in Tags
  <2> TAKE r \in new
  <2>1. tagOf[r] \in Tags
    OBVIOUS
  <2>2. a.heap[r] = [tag |-> tagOf[r], file |-> f]
    BY <1>5
  <2> QED
    BY <2>1, <2>2
<1>6. \A r \in t.map : t.heap[r].file # f
  BY DEF TableOK
<1>7. OfFile(t, f) = {}
  BY <1>6 DEF OfFile
<1>8. OfFile(a, f) = new
  BY <1>3, <1>4, <1>a, <1>6 DEF OfFile
<1>9. \A g \in Files \ {f} : OfFile(a, g) = OfFile(t, g)
  BY <1>3, <1>4, <1>a DEF OfFile
<1>10. a.map = {r \in Results : a.heap[r] # Freed}
  <2>1. \A r \in new : a.heap[r] \in Objects
    <3> TAKE r \in new
    <3>1. tagOf[r] \in Tags
      OBVIOUS
    <3>2. [tag |-> tagOf[r], file |-> f] \in Objects
      BY <1>1, <3>1 DEF Objects
    <3> QED
      BY <1>5, <3>2
  <2>2. \A r \in new : a.heap[r] # Freed
    BY <2>1, TagsTableAssumption DEF Objects
  <2>3. \A r \in Results \ new : a.heap[r] = t.heap[r]
    BY <1>3
  <2>4. t.map = {r \in Results : t.heap[r] # Freed}
    BY DEF TableOK
  <2> QED
    BY <1>2, <1>3, <2>2, <2>3, <2>4
<1>11. \A g \in Files : a.filemap[g] = IF fileindex THEN OfFile(a, g) ELSE {}
  <2>1. \A g \in Files : t.filemap[g] = IF fileindex THEN OfFile(t, g) ELSE {}
    BY DEF TableOK
  <2> QED
    BY <1>1, <1>3, <1>8, <1>9, <2>1 DEF TableType
<1>12. fileindex => a.indexed = a.loaded
  BY <1>3 DEF TableOK
<1>13. FindFileFlag => \A g \in Files : a.findfilemap[g] > 0 <=> OfFile(a, g) # {}
  <2> SUFFICES ASSUME FindFileFlag, NEW g \in Files
               PROVE  a.findfilemap[g] > 0 <=> OfFile(a, g) # {}
    OBVIOUS
  <2>1. t.findfilemap[g] \in Nat /\ (t.findfilemap[g] > 0 <=> OfFile(t, g) # {})
    BY <1>1 DEF TableOK, TableType
  <2>2. IsFiniteSet(new)
    BY <1>2, TagsTableAssumption, FS_Subset
  <2>3. Cardinality(new) \in Nat /\ (Cardinality(new) = 0 <=> new = {})
    BY <2>2, FS_CardinalityType, FS_EmptySet
  <2>4. CASE g = f
    <3>1. a.findfilemap[f] = t.findfilemap[f] + Cardinality(new)
      BY <1>1, <1>3 DEF TableType
    <3>2. t.findfilemap[f] = 0
      BY <2>1, <2>4, <1>7
    <3> QED
      BY <2>3, <2>4, <3>1, <3>2, <1>8
  <2>5. CASE g # f
    <3>1. a.findfilemap[g] = t.findfilemap[g]
      BY <1>1, <1>3, <2>5 DEF TableType
    <3> QED
      BY <2>1, <2>5, <3>1, <1>9
  <2> QED
    BY <2>4, <2>5
<1>14. \A r \in a.map : a.heap[r].file \in a.loaded
  BY <1>3, <1>4, <1>a DEF TableOK
<1>15. a.loaded \subseteq a.fileset
  BY <1>3 DEF TableOK
<1>16. TableOK(a, fileindex)
  BY <1>3, <1>10, <1>11, <1>12, <1>13, <1>14, <1>15 DEF TableOK
<1> QED
  BY <1>3, <1>4, <1>5, <1>16 DEF a

-----------------------------------------------------------------------------
(* FreeData leaves the initial table: there is nothing outside of map_.      *)
LEMMA FreeDataEmpties ==
  ASSUME NEW withIndex \in BOOLEAN, NEW t, TableOK(t, withIndex)
  PROVE  [Empty EXCEPT !.heap = [r \in Results |->
            IF r \in t.map THEN Freed ELSE t.heap[r]]] = Empty
<1> DEFINE h == [r \in Results |-> IF r \in t.map THEN Freed ELSE t.heap[r]]
<1>1. \A r \in Results : r \notin t.map => t.heap[r] = Freed
  BY DEF TableOK
<1>2. h = [r \in Results |-> Freed]
  BY <1>1
<1> HIDE DEF h
<1>a. Empty.heap = h /\ Empty \in TableType
  BY <1>2, EmptyOK DEF Empty, TableOK
<1>b. ASSUME NEW e \in TableType, e.heap = h PROVE [e EXCEPT !.heap = h] = e
  BY <1>b DEF TableType
<1>3. [Empty EXCEPT !.heap = h] = Empty
  BY <1>a, <1>b
<1> QED
  BY <1>3 DEF h

(* A file declaration replaces what the table has of its file.               *)
LEMMA ParsedOK ==
  ASSUME fileindex \in BOOLEAN, NEW t, TableOK(t, fileindex), NEW f \in Files,
         NEW counts, NEW parsed, Parsed(UnloadFiles(Known(t, f), {f}), f, counts, parsed)
  PROVE  /\ TableOK(parsed, fileindex)
         /\ ~CheckFails(Known(t, f), {f})
<1> DEFINE k == Known(t, f)
<1> DEFINE u == UnloadFiles(k, {f})
<1>1. TableOK(k, fileindex) /\ f \in k.fileset
  BY KnownOK
<1> HIDE DEF k
<1>2. /\ TableOK(u, fileindex) /\ ~CheckFails(k, {f})
      /\ u.fileset = k.fileset /\ u.loaded = k.loaded \ {f}
  BY <1>1, UnloadOK
<1> HIDE DEF u
<1>3. f \in u.fileset /\ f \notin u.loaded
  BY <1>1, <1>2
<1>4. Parsed(u, f, counts, parsed)
  BY DEF u, k
<1>5. PICK new \in SUBSET Unused(u) : \E tagOf \in [new -> Tags] :
        parsed = AddFile(u, f, new, tagOf)
  BY <1>4 DEF Parsed
<1>6. PICK tagOf \in [new -> Tags] : parsed = AddFile(u, f, new, tagOf)
  BY <1>5
<1>7. TableOK(AddFile(u, f, new, tagOf), fileindex)
  BY <1>2, <1>3, AddOK
<1> QED
  BY <1>2, <1>6, <1>7 DEF k

(* An empty table is in order.                                               *)
LEMMA InitInv == Init => TTInv
BY EmptyOK DEF Init, TTInv

(* Opening a tag file keeps the invariant, given that the table stays in     *)
(* order.                                                                    *)
LEMMA LoadTagFileInv ==
  ASSUME TTInv, NEW ok \in BOOLEAN, LoadTagFile(ok), UNCHANGED fileindex,
         TableOK(table', fileindex)
  PROVE  TTInv'
BY DEF TTInv, LoadTagFile

(* A reload frees the table before it opens the tag file.                    *)
LEMMA ReloadInv ==
  ASSUME TTInv, NEW ok \in BOOLEAN, ReloadTagFile(ok)
  PROVE  TTInv' /\ table' = Empty
<1>1. fileindex \in BOOLEAN /\ TableOK(table, fileindex)
  BY DEF TTInv
<1>2. table' = Empty
  BY <1>1, FreeDataEmpties DEF ReloadTagFile
<1>3. TableOK(table', fileindex)
  BY <1>1, <1>2, EmptyOK
<1> QED
  BY <1>2, <1>3, LoadTagFileInv DEF ReloadTagFile

(* An update opens the tag file over the table as it is.                     *)
LEMMA UpdateInv ==
  ASSUME TTInv, NEW ok \in BOOLEAN, UpdateTagFile(ok)
  PROVE  TTInv'
BY LoadTagFileInv DEF UpdateTagFile, TTInv

(* A header declaration changes no index.                                    *)
LEMMA ParseHeaderInv ==
  ASSUME TTInv, NEW malformed \in BOOLEAN, ParseHeaderDeclaration(malformed)
  PROVE  TTInv'
BY DEF ParseHeaderDeclaration, TTInv

(* A file declaration puts new objects where those of its file were.         *)
LEMMA ParseFileInv ==
  ASSUME TTInv, NEW f \in Files, NEW counts, ParseFileDeclaration(f, counts)
  PROVE  TTInv'
<1>1. fileindex \in BOOLEAN /\ TableOK(table, fileindex)
  BY DEF TTInv
<1>2. Parsed(UnloadFiles(Known(table, f), {f}), f, counts, table')
  BY DEF ParseFileDeclaration
<1>3. TableOK(table', fileindex) /\ ~CheckFails(Known(table, f), {f})
  BY <1>1, <1>2, ParsedOK
<1>4. died' = died /\ fileindex' = fileindex /\ loading' = "files"
  BY <1>3 DEF ParseFileDeclaration
<1> QED
  BY <1>3, <1>4 DEF TTInv

(* A deleted declaration unloads its file.                                   *)
LEMMA ParseDeletedInv ==
  ASSUME TTInv, NEW f \in Files, ParseDeletedDeclaration(f)
  PROVE  TTInv'
<1>1. fileindex \in BOOLEAN /\ TableOK(table, fileindex)
  BY DEF TTInv
<1>2. TableOK(Known(table, f), fileindex)
  BY <1>1, KnownOK
<1>3. /\ TableOK(UnloadFiles(Known(table, f), {f}), fileindex)
      /\ ~CheckFails(Known(table, f), {f})
  BY <1>1, <1>2, UnloadOK
<1>4. /\ table' = UnloadFiles(Known(table, f), {f})
      /\ died' = died /\ fileindex' = fileindex /\ loading' = "files"
  BY <1>3 DEF ParseDeletedDeclaration, Unload
<1> QED
  BY <1>3, <1>4 DEF TTInv

(* The end of a tag file changes no index.                                   *)
LEMMA EndOfTagFileInv ==
  ASSUME TTInv, EndOfTagFile
  PROVE  TTInv'
BY DEF EndOfTagFile, TTInv

(* The unload of a directory unloads the files of its prefix.                *)
LEMMA UnloadInDirInv ==
  ASSUME TTInv, NEW d, UnloadFilesInDir(d)
  PROVE  TTInv'
<1>1. fileindex \in BOOLEAN /\ TableOK(table, fileindex)
  BY DEF TTInv
<1>2. Matching(d) \in SUBSET Files
  BY <1>1 DEF Matching, TableOK, TableType
<1>3. /\ TableOK(UnloadFiles(table, Matching(d)), fileindex)
      /\ ~CheckFails(table, Matching(d))
  BY <1>1, <1>2, UnloadOK
<1>4. /\ table' = UnloadFiles(table, Matching(d))
      /\ died' = died /\ fileindex' = fileindex /\ loading' = loading
  BY <1>3 DEF UnloadFilesInDir, Unload
<1> QED
  BY <1>3, <1>4 DEF TTInv

(* Every step of the table keeps the invariant: one step per operation.      *)
LEMMA StepInv == TTInv /\ [Next]_vars => TTInv'
<1> SUFFICES ASSUME TTInv, [Next]_vars PROVE TTInv'
  OBVIOUS
<1>1. ASSUME NEW ok \in BOOLEAN, ReloadTagFile(ok) PROVE TTInv'
  BY <1>1, ReloadInv
<1>2. ASSUME NEW ok \in BOOLEAN, UpdateTagFile(ok) PROVE TTInv'
  BY <1>2, UpdateInv
<1>3. ASSUME NEW ok \in BOOLEAN, ParseHeaderDeclaration(ok) PROVE TTInv'
  BY <1>3, ParseHeaderInv
<1>4. ASSUME NEW f \in Files, NEW counts \in Counts, ParseFileDeclaration(f, counts)
      PROVE  TTInv'
  BY <1>4, ParseFileInv
<1>5. ASSUME NEW f \in Files, ParseDeletedDeclaration(f) PROVE TTInv'
  BY <1>5, ParseDeletedInv
<1>6. CASE EndOfTagFile
  BY <1>6, EndOfTagFileInv
<1>7. ASSUME NEW d \in Dirs, UnloadFilesInDir(d) PROVE TTInv'
  BY <1>7, UnloadInDirInv
<1>8. CASE UNCHANGED vars
  BY <1>8 DEF TTInv, vars
<1> QED
  BY <1>1, <1>2, <1>3, <1>4, <1>5, <1>6, <1>7, <1>8 DEF Next

(* The invariant of the table: the heap holds what map_ holds, each index    *)
(* what the heap says, and no unload fails its CHECK (tagstable.cc:394).     *)
THEOREM Invariance == Spec => []TTInv
<1>1. Init => TTInv
  BY InitInv
<1>2. TTInv /\ [Next]_vars => TTInv'
  BY StepInv
<1> QED
  BY <1>1, <1>2, PTL DEF Spec

(* What the invariant says of types, of ownership and of the indices.        *)
LEMMA InvTypes == TTInv => TypeOK
BY DEF TTInv, TypeOK, TableOK, TableType, Objects

(* The part of ownership.                                                    *)
LEMMA InvOwned == TTInv => ResultsOwned
BY DEF TTInv, ResultsOwned, TableOK, OfFile

(* The part of the indices.                                                  *)
LEMMA InvAgree == TTInv => IndicesAgree
<1> SUFFICES ASSUME TTInv PROVE IndicesAgree
  OBVIOUS
<1>1. fileindex \in BOOLEAN /\ TableOK(table, fileindex) /\ died # "unload"
  BY DEF TTInv
<1>2. ASSUME fileindex, NEW f \in Files
      PROVE  FindTagsByFile(f) = {r \in UNION {FindTags(t) : t \in Tags} :
                                    table.heap[r].file = f}
  <2>1. UNION {FindTags(t) : t \in Tags} = table.map
    <3>1. \A r \in table.map : table.heap[r].tag \in Tags
      BY <1>1, MapObjects
    <3> QED
      BY <3>1 DEF FindTags
  <2>2. table.filemap[f] = OfFile(table, f) /\ table.indexed = table.loaded
    BY <1>1, <1>2 DEF TableOK
  <2>3. f \notin table.loaded => OfFile(table, f) = {}
    BY <1>1 DEF TableOK, OfFile
  <2> QED
    BY <2>1, <2>2, <2>3 DEF FindTagsByFile, OfFile
<1>3. ASSUME FindFileFlag, NEW f \in Files
      PROVE  f \in FindFile(Basename(f)) <=> \E r \in table.map : table.heap[r].file = f
  <2>1. table.findfilemap[f] > 0 <=> OfFile(table, f) # {}
    BY <1>1, <1>3 DEF TableOK
  <2>2. f \in FindFile(Basename(f)) <=> table.findfilemap[f] > 0
    BY DEF FindFile
  <2> QED
    BY <2>1, <2>2 DEF OfFile
<1>4. /\ \A r \in table.map : table.heap[r].file \in table.loaded
      /\ table.loaded \subseteq table.fileset
  BY <1>1 DEF TableOK
<1> QED
  BY <1>1, <1>2, <1>3, <1>4 DEF IndicesAgree

-----------------------------------------------------------------------------
(* The content of a table, as an operator on tables.                         *)
With(t, f, g) == {r \in t.map : t.heap[r].tag = g /\ t.heap[r].file = f}

ContentOf(t) ==
  [f \in Files |-> IF f \in t.loaded THEN [g \in Tags |-> Cardinality(With(t, f, g))]
                                    ELSE Absent]

(* The content of the current table, the refinement mapping, as the operator *)
(* has it.                                                                   *)
LEMMA ContentIs == Content = ContentOf(table)
<1>1. \A f, g : {r \in FindTags(g) : table.heap[r].file = f} = With(table, f, g)
  BY DEF FindTags, With
<1> QED
  BY <1>1 DEF Content, ContentOf

(* An empty table has no file.                                               *)
LEMMA EmptyContent == ContentOf(Empty) = [f \in Files |-> Absent]
BY DEF ContentOf, Empty

(* A name in fileset_ is no content.                                         *)
LEMMA KnownContent ==
  ASSUME NEW withIndex \in BOOLEAN, NEW t, TableOK(t, withIndex), NEW f \in Files
  PROVE  ContentOf(Known(t, f)) = ContentOf(t)
<1> DEFINE k == Known(t, f)
<1>1. k.loaded = t.loaded /\ k.map = t.map /\ k.heap = t.heap
  BY KnownOK
<1> HIDE DEF k
<1>2. \A e, g : With(k, e, g) = With(t, e, g)
  BY <1>1 DEF With
<1>3. ContentOf(k) = ContentOf(t)
  BY <1>1, <1>2 DEF ContentOf
<1> QED
  BY <1>3 DEF k

(* An unload takes the files from the content, and touches no other.         *)
LEMMA UnloadContent ==
  ASSUME fileindex \in BOOLEAN, NEW t, TableOK(t, fileindex), NEW fs \in SUBSET Files
  PROVE  ContentOf(UnloadFiles(t, fs))
           = [f \in Files |-> IF f \in fs THEN Absent ELSE ContentOf(t)[f]]
<1> DEFINE u == UnloadFiles(t, fs)
<1>1. /\ u.loaded = t.loaded \ fs
      /\ u.map = {r \in t.map : t.heap[r].file \notin fs}
      /\ \A r \in u.map : u.heap[r] = t.heap[r]
  BY UnloadOK
<1> HIDE DEF u
<1>2. \A f \in Files \ fs : \A g : With(u, f, g) = With(t, f, g)
  BY <1>1 DEF With
<1>3. ContentOf(u) = [f \in Files |-> IF f \in fs THEN Absent ELSE ContentOf(t)[f]]
  BY <1>1, <1>2 DEF ContentOf
<1> QED
  BY <1>3 DEF u

(* New objects for a file that is not loaded are its content.                *)
LEMMA AddContent ==
  ASSUME fileindex \in BOOLEAN, NEW t, TableOK(t, fileindex),
         NEW f \in t.fileset, f \notin t.loaded,
         NEW new \in SUBSET Unused(t), NEW tagOf \in [new -> Tags]
  PROVE  ContentOf(AddFile(t, f, new, tagOf))
           = [ContentOf(t) EXCEPT ![f] = [g \in Tags |-> Cardinality({r \in new : tagOf[r] = g})]]
<1> DEFINE a == AddFile(t, f, new, tagOf)
<1>1. /\ a.loaded = t.loaded \cup {f}
      /\ a.map = t.map \cup new
      /\ \A r \in t.map : a.heap[r] = t.heap[r]
      /\ \A r \in new : a.heap[r] = [tag |-> tagOf[r], file |-> f]
  BY AddOK
<1> HIDE DEF a
<1>2. \A r \in new : a.heap[r].tag = tagOf[r] /\ a.heap[r].file = f
  <2> TAKE r \in new
  <2>1. a.heap[r] = [tag |-> tagOf[r], file |-> f]
    BY <1>1
  <2> QED
    BY <2>1
<1>3. \A r \in t.map : t.heap[r].file # f
  BY DEF TableOK
<1>4. \A g : With(a, f, g) = {r \in new : tagOf[r] = g}
  BY <1>1, <1>2, <1>3 DEF With
<1>5. \A e \in Files \ {f} : \A g : With(a, e, g) = With(t, e, g)
  BY <1>1, <1>2 DEF With
<1>6. f \in Files
  BY DEF TableOK, TableType
<1>7. ContentOf(a)[f] = [g \in Tags |-> Cardinality({r \in new : tagOf[r] = g})]
  BY <1>1, <1>4, <1>6 DEF ContentOf
<1>8. \A e \in Files \ {f} : ContentOf(a)[e] = ContentOf(t)[e]
  BY <1>1, <1>5 DEF ContentOf
<1>9. /\ ContentOf(a) = [e \in Files |-> ContentOf(a)[e]]
      /\ ContentOf(t) = [e \in Files |-> ContentOf(t)[e]]
  BY DEF ContentOf
<1>10. ContentOf(a) = [ContentOf(t) EXCEPT ![f] =
                         [g \in Tags |-> Cardinality({r \in new : tagOf[r] = g})]]
  BY <1>6, <1>7, <1>8, <1>9
<1> QED
  BY <1>10 DEF a

(* A file declaration makes its counts the content of its file.              *)
LEMMA ParsedContent ==
  ASSUME fileindex \in BOOLEAN, NEW t, TableOK(t, fileindex), NEW f \in Files,
         NEW counts \in Counts, NEW parsed,
         Parsed(UnloadFiles(Known(t, f), {f}), f, counts, parsed)
  PROVE  /\ ContentOf(parsed)[f] = counts
         /\ ContentOf(parsed) = [ContentOf(t) EXCEPT ![f] = counts]
<1> DEFINE k == Known(t, f)
<1> DEFINE u == UnloadFiles(k, {f})
<1>1. TableOK(k, fileindex) /\ f \in k.fileset /\ ContentOf(k) = ContentOf(t)
  BY KnownOK, KnownContent
<1> HIDE DEF k
<1>2. /\ TableOK(u, fileindex) /\ u.fileset = k.fileset /\ u.loaded = k.loaded \ {f}
      /\ ContentOf(u) = [e \in Files |-> IF e \in {f} THEN Absent ELSE ContentOf(k)[e]]
  BY <1>1, UnloadOK, UnloadContent
<1> HIDE DEF u
<1>3. f \in u.fileset /\ f \notin u.loaded
  BY <1>1, <1>2
<1>4. Parsed(u, f, counts, parsed)
  BY DEF u, k
<1>5. PICK new \in SUBSET Unused(u) : \E tagOf \in [new -> Tags] :
        /\ \A g \in Tags : Cardinality({r \in new : tagOf[r] = g}) = counts[g]
        /\ parsed = AddFile(u, f, new, tagOf)
  BY <1>4 DEF Parsed
<1>6. PICK tagOf \in [new -> Tags] :
        /\ \A g \in Tags : Cardinality({r \in new : tagOf[r] = g}) = counts[g]
        /\ parsed = AddFile(u, f, new, tagOf)
  BY <1>5
<1> DEFINE c == [g \in Tags |-> Cardinality({r \in new : tagOf[r] = g})]
<1>7. ContentOf(parsed) = [ContentOf(u) EXCEPT ![f] = c]
  BY <1>2, <1>3, <1>6, AddContent
<1>8. c = counts
  BY <1>6 DEF Counts
<1> HIDE DEF c
<1>9. ContentOf(t) = [e \in Files |-> ContentOf(t)[e]]
  BY DEF ContentOf
<1>10. ContentOf(parsed) = [e \in Files |-> IF e = f THEN c ELSE ContentOf(t)[e]]
  BY <1>1, <1>2, <1>7
<1> QED
  BY <1>8, <1>9, <1>10

(* The same, after a step.                                                  *)
LEMMA ContentIsNext == Content' = ContentOf(table')
<1>1. \A f, g : {r \in FindTags(g)' : table'.heap[r].file = f} = With(table', f, g)
  BY DEF FindTags, With
<1> QED
  BY <1>1 DEF Content, ContentOf

(* Each step on the table is one of the relation, or none.                   *)
LEMMA RelationStep == TTInv /\ [Next]_vars => [Relation!RelationNext]_Content
<1> SUFFICES ASSUME TTInv, [Next]_vars
             PROVE  [Relation!RelationNext]_Content
  OBVIOUS
<1>1. fileindex \in BOOLEAN /\ TableOK(table, fileindex)
  BY DEF TTInv
<1>2. Content = ContentOf(table) /\ Content' = ContentOf(table')
  BY ContentIs, ContentIsNext
<1>3. ASSUME table' = table PROVE Content' = Content
  BY <1>2, <1>3
<1>4. ASSUME NEW ok \in BOOLEAN, ReloadTagFile(ok) PROVE Relation!Clear
  <2>1. table' = Empty
    BY <1>4, ReloadInv
  <2> QED
    BY <1>2, <2>1, EmptyContent DEF Relation!Clear, Relation!Empty
<1>5. ASSUME NEW fs \in SUBSET Files, NEW t, TableOK(t, fileindex),
             ContentOf(t) = Content, table' = UnloadFiles(t, fs)
      PROVE  Relation!Drop(fs)
  BY <1>1, <1>2, <1>5, UnloadContent DEF Relation!Drop
<1>6. ASSUME NEW f \in Files, NEW counts \in Counts, ParseFileDeclaration(f, counts)
      PROVE  Relation!Replace(f)
  <2>1. Parsed(UnloadFiles(Known(table, f), {f}), f, counts, table')
    BY <1>6 DEF ParseFileDeclaration
  <2>2. Content'[f] = counts /\ Content' = [Content EXCEPT ![f] = counts]
    BY <1>1, <1>2, <2>1, ParsedContent
  <2>3. counts \in [Tags -> 0 .. MaxItems]
    BY DEF Counts
  <2> QED
    BY <2>2, <2>3 DEF Relation!Replace
<1>7. ASSUME NEW f \in Files, ParseDeletedDeclaration(f) PROVE Relation!Drop({f})
  <2>1. TableOK(Known(table, f), fileindex) /\ ContentOf(Known(table, f)) = Content
    BY <1>1, <1>2, KnownOK, KnownContent
  <2>2. table' = UnloadFiles(Known(table, f), {f})
    BY <1>7 DEF ParseDeletedDeclaration, Unload
  <2> QED
    BY <1>5, <2>1, <2>2
<1>8. ASSUME NEW d \in Dirs, UnloadFilesInDir(d) PROVE Relation!Drop(Named[d])
  <2>1. Matching(d) \in SUBSET Files /\ Named[d] \in SUBSET Files
    BY <1>1 DEF Matching, TableOK, TableType, Named
  <2>2. table' = UnloadFiles(table, Matching(d))
    BY <1>8 DEF UnloadFilesInDir, Unload
  <2>3. Content' = [f \in Files |-> IF f \in Matching(d) THEN Absent ELSE Content[f]]
    BY <1>1, <1>2, <2>1, <2>2, UnloadContent
  <2>4. \A f \in Files : f \in Named[d] /\ f \notin Matching(d) => Content[f] = Absent
    <3>1. \A f \in Files : f \notin table.fileset => Content[f] = Absent
      BY <1>1, <1>2 DEF TableOK, ContentOf
    <3> QED
      BY <3>1 DEF Named, Matching
  <2>5. Matching(d) \subseteq Named[d]
    BY <2>1 DEF Named, Matching
  <2>6. Content' = [f \in Files |-> IF f \in Named[d] THEN Absent ELSE Content[f]]
    BY <2>3, <2>4, <2>5
  <2> QED
    BY <2>6 DEF Relation!Drop
<1>9. ASSUME NEW ok \in BOOLEAN, UpdateTagFile(ok) \/ ParseHeaderDeclaration(ok)
      PROVE  table' = table
  BY <1>9 DEF UpdateTagFile, ParseHeaderDeclaration
<1>10. EndOfTagFile \/ UNCHANGED vars => table' = table
  BY DEF EndOfTagFile, vars
<1>11. DOMAIN Named = Dirs
  BY DEF Named
<1> QED
  BY <1>3, <1>4, <1>6, <1>7, <1>8, <1>9, <1>10, <1>11 DEF Next, Relation!RelationNext

-----------------------------------------------------------------------------
(* Type correctness of the table and of what reads it.                       *)
THEOREM TypeCorrect == Spec => []TypeOK
BY Invariance, InvTypes, PTL

(* UnloadFile and FreeData delete a result from every index or from none: no *)
(* lookup meets a deleted result, and none is left out of map_.              *)
THEOREM OwnershipIsKept == Spec => []ResultsOwned
BY Invariance, InvOwned, PTL

(* The three indices, fileset_ and loaded_files_ agree after any sequence of *)
(* loads, updates and unloads, with either value of both flags.              *)
THEOREM IndicesKeepAgreeing == Spec => []IndicesAgree
BY Invariance, InvAgree, PTL

(* Loads and unloads change the table as TagsRelation says: a declaration    *)
(* replaces its file as a whole, and no other.                               *)
THEOREM ImplementsTheRelation == Spec => ImplementsRelation
<1>1. Init => Relation!RelationInit
  <2>1. Init => Content = [f \in Files |-> Absent]
    BY ContentIs, EmptyContent DEF Init
  <2> QED
    BY <2>1 DEF Relation!RelationInit, Relation!Empty
<1>2. TTInv /\ [Next]_vars => [Relation!RelationNext]_Content
  BY RelationStep
<1> QED
  BY <1>1, <1>2, Invariance, PTL DEF Spec, ImplementsRelation, Relation!RelationSpec

-----------------------------------------------------------------------------
(* The local index.                                                          *)

Types ==
  /\ disk \in [Files -> Contents \cup {Absent}]
  /\ watched \in SUBSET Dirs /\ events \in SUBSET Files
  /\ noticed \in Files \cup {Nobody}
  /\ queue \in Seq(Files)
  /\ tagfile \in Seq(Declarations)
  /\ agent \in [pc : {"get", "index", "update", "load"}, files : SUBSET Files,
                made : Seq(Declarations)]
  /\ IsFiniteSet(agent.files)
  /\ worker \in [pc : {"idle", "import", "unload"}, dir : Dirs \cup {Nobody},
                 todo : SUBSET Files]
  /\ worker.pc # "idle" => worker.dir \in Dirs
  /\ poll = [pc |-> poll.pc, query |-> poll.query, matches |-> poll.matches,
             answer |-> poll.answer]

(* A tag file is open only while a thread holds the mutex to load it, and it *)
(* names no file but those the agent took, or those the client named.        *)
TagFileOwned ==
  /\ owner = Nobody => tagfile = <<>>
  /\ owner = "agent" => agent.pc = "load" /\ NamedIn(tagfile) \subseteq agent.files
  /\ owner = "poll" => NamedIn(tagfile) \subseteq excused
  /\ poll.pc = "print" => owner = "poll" /\ tagfile = <<>>
  /\ NamedIn(agent.made) \subseteq agent.files

(* Why a file may be in the table, or on its way there.                      *)
Accounted(f) ==
  \/ Watched(f)
  \/ f \in excused
  \/ worker.pc = "import" /\ In({worker.dir}, f)
  \/ worker.pc = "unload" /\ HasPrefixString(f, worker.dir)

OnTheWay == events \cup ({noticed} \cap Files) \cup Range(queue) \cup agent.files

AllAccounted ==
  /\ \A f \in OnTheWay \cup table.loaded : Accounted(f)
  /\ \A f \in events : Watched(f)
  /\ worker.pc = "import" => \A f \in worker.todo : In({worker.dir}, f)

LIInv == Types /\ TagFileOwned /\ AllAccounted

-----------------------------------------------------------------------------
(* Names and their prefixes.                                                 *)
LEMMA LeastExists ==
  ASSUME NEW S \in SUBSET Nat, S # {}
  PROVE  \E x \in S : \A y \in S : x <= y
<1>1. \E x \in S : \A y \in S : <<y, x>> \notin OpToRel(<, Nat)
  BY NatLessThanWellFounded, WFMin
<1>2. PICK x \in S : \A y \in S : <<y, x>> \notin OpToRel(<, Nat)
  BY <1>1
<1>3. ASSUME NEW y \in S PROVE x <= y
  <2>1. x \in Nat /\ y \in Nat
    OBVIOUS
  <2>2. ~(y < x)
    BY <1>2, <2>1 DEF OpToRel
  <2> QED
    BY <2>1, <2>2
<1> QED
  BY <1>3

(* A base name is a name.                                                    *)
LEMMA BasenameSeq ==
  ASSUME NEW f \in Seq(STRING)
  PROVE  Basename(f) \in Seq(STRING)
<1> DEFINE slashes == {i \in 1 .. Len(f) : f[i] = "/"}
<1> DEFINE last == IF slashes = {} THEN 0
              ELSE CHOOSE i \in slashes : \A j \in slashes : j <= i
<1>1. ASSUME slashes # {} PROVE \E i \in slashes : \A j \in slashes : j <= i
  <2> DEFINE S == {Len(f) - i : i \in slashes}
  <2>1. S \in SUBSET Nat /\ S # {}
    BY <1>1
  <2>2. PICK x \in S : \A y \in S : x <= y
    BY <2>1, LeastExists
  <2>3. PICK i \in slashes : x = Len(f) - i
    BY <2>2
  <2>4. ASSUME NEW j \in slashes PROVE j <= i
    <3>1. Len(f) - i <= Len(f) - j
      BY <2>2, <2>3
    <3> QED
      BY <3>1
  <2> QED
    BY <2>4
<1>2. last \in 0 .. Len(f)
  <2>1. CASE slashes = {}
    BY <2>1
  <2>2. CASE slashes # {}
    <3>1. last = CHOOSE i \in slashes : \A j \in slashes : j <= i
      BY <2>2
    <3>2. last \in slashes
      BY <1>1, <2>2, <3>1
    <3> QED
      BY <3>2
  <2> QED
    BY <2>1, <2>2
<1>3. Basename(f) = SubSeq(f, last + 1, Len(f))
  BY DEF Basename
<1> HIDE DEF last
<1>4. /\ last + 1 \in Int /\ Len(f) \in Int
      /\ \A i \in last + 1 .. Len(f) : f[i] \in STRING
  BY <1>2
<1>5. SubSeq(f, last + 1, Len(f)) \in Seq(STRING)
  BY <1>4, SubSeqProperties
<1> QED
  BY <1>3, <1>5

(* A file of a directory whose name begins with d has a name that does.      *)
LEMMA PrefixOfFile ==
  ASSUME NEW f \in Files, NEW w \in Dirs, NEW d \in Dirs,
         f = w \o <<"/">> \o Basename(f), HasPrefixString(w, d)
  PROVE  HasPrefixString(f, d)
<1> DEFINE b == <<"/">> \o Basename(f)
<1> DEFINE C == STRING \cup {"/"}
<1>0. \A s \in Seq(STRING) : s \in Seq(C)
  BY SeqMonotonic
<1>1. f \in Seq(C) /\ w \in Seq(C) /\ d \in Seq(C) /\ Basename(f) \in Seq(C)
  BY <1>0, TagsTableAssumption, BasenameSeq
<1> DEFINE slash == <<"/">>
<1>2. slash \in Seq(C)
  OBVIOUS
<1> HIDE DEF C
<1> HIDE DEF slash
<1>a. slash \o Basename(f) \in Seq(C)
  BY <1>1, <1>2
<1>b. (w \o slash) \o Basename(f) = w \o (slash \o Basename(f))
  <2>1. ASSUME NEW x \in Seq(C), NEW y \in Seq(C), NEW z \in Seq(C)
        PROVE  (x \o y) \o z = x \o (y \o z)
    BY ConcatAssociative
  <2> QED
    BY <1>1, <1>2, <2>1
<1>3. b \in Seq(C) /\ f = w \o b
  BY <1>a, <1>b DEF slash
<1> HIDE DEF b
<1>4. Len(f) = Len(w) + Len(b) /\ Len(b) \in Nat
  BY <1>1, <1>3, ConcatProperties
<1>5. Len(d) <= Len(w) /\ SubSeq(w, 1, Len(d)) = d
  BY DEF HasPrefixString
<1>6. CASE Len(d) = 0
  BY <1>1, <1>4, <1>5, <1>6, SubSeqEmpty DEF HasPrefixString
<1>7. CASE Len(d) # 0
  <2>1. 1 \in 1 .. Len(w) /\ Len(d) \in 1 .. Len(w)
    BY <1>1, <1>5, <1>7
  <2>2. SubSeq(w \o b, 1, Len(d)) = SubSeq(w, 1, Len(d))
    BY <1>1, <1>3, <2>1, SubSeqOfConcat1
  <2> QED
    BY <1>1, <1>3, <1>4, <1>5, <2>2 DEF HasPrefixString
<1> QED
  BY <1>1, <1>6, <1>7

-----------------------------------------------------------------------------
(* Tag files and the files they name.                                        *)
LEMMA NamedDeclaration ==
  ASSUME NEW decl \in Declarations, decl.kind \in {"file", "deleted"}
  PROVE  decl.file \in Files /\ (decl.kind = "file" => decl.counts \in Counts)
BY DEF Declarations

(* A closed tag file names none.                                             *)
LEMMA NamedInEmpty == NamedIn(<<>>) = {}
BY DEF NamedIn

(* Reading on names no more files.                                           *)
LEMMA NamedInTail ==
  ASSUME NEW decls \in Seq(Declarations), decls # <<>>
  PROVE  /\ Head(decls) \in Declarations
         /\ Tail(decls) \in Seq(Declarations)
         /\ NamedIn(Tail(decls)) \subseteq NamedIn(decls)
         /\ Head(decls).kind \in {"file", "deleted"} => Head(decls).file \in NamedIn(decls)
<1>1. /\ Head(decls) \in Declarations /\ Tail(decls) \in Seq(Declarations)
      /\ Head(decls) = decls[1] /\ 1 \in DOMAIN decls
      /\ \A i \in DOMAIN Tail(decls) : i + 1 \in DOMAIN decls /\ Tail(decls)[i] = decls[i + 1]
  OBVIOUS
<1> QED
  BY <1>1 DEF NamedIn

(* What the client or the agent has open after the first expression.         *)
LEMMA OpenNames ==
  ASSUME NEW decls \in Seq(Declarations), Open(decls)
  PROVE  tagfile' \in Seq(Declarations) /\ NamedIn(tagfile') \subseteq NamedIn(decls)
<1>1. CASE Readable(decls)
  BY <1>1, NamedInTail DEF Open, Readable
<1>2. CASE ~Readable(decls)
  BY <1>2, NamedInEmpty DEF Open
<1> QED
  BY <1>1, <1>2

(* What the generators write for files that are there.                       *)
LEMMA WrittenNames ==
  ASSUME NEW fs \in SUBSET Files, IsFiniteSet(fs), \A f \in fs : disk[f] \in Counts
  PROVE  Written(fs) \in Seq(Declarations) /\ NamedIn(Written(fs)) \subseteq fs
<1> DEFINE n == Cardinality(fs)
<1>1. n \in Nat /\ ExistsBijection(1 .. n, fs)
  BY FS_CardinalityType
<1>2. \E s \in [1 .. n -> fs] : IsInjective(s)
  BY <1>1 DEF ExistsBijection, Bijection, Injection
<1>3. SetToSeq(fs) \in [1 .. n -> fs]
  BY <1>2 DEF SetToSeq
<1> DEFINE entry(i) == [kind |-> "file", file |-> SetToSeq(fs)[i], counts |-> disk[SetToSeq(fs)[i]]]
<1> DEFINE files == [i \in 1 .. n |-> entry(i)]
<1> DEFINE header == <<[kind |-> "version"], [kind |-> "header"]>>
<1>4. \A i \in 1 .. n : entry(i) \in Declarations /\ entry(i).file \in fs
  BY <1>3 DEF Declarations
<1>5. files \in Seq(Declarations)
  BY <1>1, <1>4, IsASeq
<1>6. header \in Seq(Declarations) /\ Len(header) = 2
      /\ \A i \in 1 .. 2 : header[i].kind \notin {"file", "deleted"}
  BY DEF Declarations
<1>7. Written(fs) = header \o files
  BY DEF Written
<1> HIDE DEF n, header
<1>8. \A i \in 1 .. n : files[i].file \in fs
  BY <1>4
<1>9. Len(files) = n
  BY <1>1, <1>5
<1> HIDE DEF files
<1>10. ASSUME NEW i \in DOMAIN (header \o files),
              (header \o files)[i].kind \in {"file", "deleted"}
       PROVE  (header \o files)[i].file \in fs
  BY <1>1, <1>5, <1>6, <1>8, <1>9, <1>10, ConcatProperties
<1>11. header \o files \in Seq(Declarations)
  BY <1>5, <1>6
<1> QED
  BY <1>7, <1>10, <1>11 DEF NamedIn

(* The names in the queue are finitely many files.                           *)
LEMMA RangeOfQueue ==
  ASSUME NEW q \in Seq(Files)
  PROVE  Range(q) \in SUBSET Files /\ IsFiniteSet(Range(q))
<1>1. Len(q) \in Nat /\ DOMAIN q = 1 .. Len(q) /\ q \in [1 .. Len(q) -> Files]
  OBVIOUS
<1>2. Range(q) \in SUBSET Files
  BY <1>1 DEF Range
<1>3. q \in Surjection(1 .. Len(q), Range(q))
  BY <1>1 DEF Surjection, Range
<1>4. IsFiniteSet(1 .. Len(q))
  BY <1>1, FS_Interval
<1> QED
  BY <1>2, <1>3, <1>4, FS_Surjection

(* A name that is put joins those of the queue.                              *)
LEMMA RangeOfAppend ==
  ASSUME NEW q \in Seq(Files), NEW f \in Files
  PROVE  Append(q, f) \in Seq(Files) /\ Range(Append(q, f)) = Range(q) \cup {f}
<1>1. /\ Append(q, f) \in Seq(Files)
      /\ Len(q) \in Nat
      /\ DOMAIN q = 1 .. Len(q) /\ DOMAIN Append(q, f) = 1 .. Len(q) + 1
      /\ \A i \in 1 .. Len(q) : Append(q, f)[i] = q[i]
      /\ Append(q, f)[Len(q) + 1] = f
  OBVIOUS
<1>2. 1 .. Len(q) + 1 = (1 .. Len(q)) \cup {Len(q) + 1}
  BY <1>1
<1> QED
  BY <1>1, <1>2 DEF Range

-----------------------------------------------------------------------------
(* What the operations on the table do to loaded_files_.                     *)
LEMMA ParseFileLoads ==
  ASSUME TTInv, NEW f \in Files, NEW counts, ParseFileDeclaration(f, counts)
  PROVE  table'.loaded \subseteq table.loaded \cup {f}
<1> DEFINE k == Known(table, f)
<1> DEFINE u == UnloadFiles(k, {f})
<1>1. fileindex \in BOOLEAN /\ TableOK(table, fileindex)
  BY DEF TTInv
<1>2. TableOK(k, fileindex) /\ f \in k.fileset /\ k.loaded = table.loaded
  BY <1>1, KnownOK
<1>3. Parsed(u, f, counts, table')
  BY DEF ParseFileDeclaration
<1> HIDE DEF k
<1>4. TableOK(u, fileindex) /\ u.fileset = k.fileset /\ u.loaded = k.loaded \ {f}
  BY <1>1, <1>2, UnloadOK
<1> HIDE DEF u
<1>5. PICK new \in SUBSET Unused(u) : \E tagOf \in [new -> Tags] :
        table' = AddFile(u, f, new, tagOf)
  BY <1>3 DEF Parsed
<1>6. PICK tagOf \in [new -> Tags] : table' = AddFile(u, f, new, tagOf)
  BY <1>5
<1>7. f \in u.fileset /\ f \notin u.loaded
  BY <1>2, <1>4
<1>8. AddFile(u, f, new, tagOf).loaded = u.loaded \cup {f}
  BY <1>1, <1>4, <1>7, AddOK
<1> QED
  BY <1>2, <1>4, <1>6, <1>8

(* A deleted declaration takes its file out.                                 *)
LEMMA ParseDeletedLoads ==
  ASSUME TTInv, NEW f \in Files, ParseDeletedDeclaration(f)
  PROVE  table'.loaded \subseteq table.loaded
<1>1. fileindex \in BOOLEAN /\ TableOK(table, fileindex)
  BY DEF TTInv
<1>2. TableOK(Known(table, f), fileindex) /\ Known(table, f).loaded = table.loaded
  BY <1>1, KnownOK
<1>3. UnloadFiles(Known(table, f), {f}).loaded = Known(table, f).loaded \ {f}
  BY <1>1, <1>2, UnloadOK
<1> QED
  BY <1>2, <1>3 DEF ParseDeletedDeclaration, Unload

(* An unload takes out the files of the prefix.                              *)
LEMMA UnloadInDirLoads ==
  ASSUME TTInv, NEW d, UnloadFilesInDir(d)
  PROVE  table'.loaded = {f \in table.loaded : ~HasPrefixString(f, d)}
<1>1. fileindex \in BOOLEAN /\ TableOK(table, fileindex)
  BY DEF TTInv
<1>2. Matching(d) \in SUBSET Files /\ table.loaded \subseteq table.fileset
  BY <1>1 DEF Matching, TableOK, TableType
<1>3. UnloadFiles(table, Matching(d)).loaded = table.loaded \ Matching(d)
  BY <1>1, <1>2, UnloadOK
<1> QED
  BY <1>2, <1>3 DEF UnloadFilesInDir, Unload, Matching

(* What is loaded are files.                                                 *)
LEMMA LoadedAreFiles == TTInv => table.loaded \in SUBSET Files
BY DEF TTInv, TableOK, TableType

-----------------------------------------------------------------------------
(* The threads touch the table only through its operations.                  *)
LEMMA TableSteps ==
  ASSUME Types, [LINext]_liVars
  PROVE  [Next]_vars
<1>1. ASSUME NEW t, ReadDeclaration(t), died = "no" PROVE Next
  <2>1. Head(tagfile) \in Declarations
    BY <1>1, NamedInTail DEF Types, ReadDeclaration
  <2> QED
    BY <1>1, <2>1, NamedDeclaration DEF ReadDeclaration, Next
<1>2. Agent /\ died = "no" => [Next]_vars
  <2>1. CASE Update
    BY <2>1 DEF Update, Next, Readable
  <2>2. CASE DoneRequests
    BY <2>2 DEF DoneRequests, CloseTagFile, Next
  <2> QED
    BY <1>1, <2>1, <2>2 DEF Agent, GetRequests, Generate, FailToGenerate
<1>3. Poll /\ died = "no" => [Next]_vars
  <2>1. ASSUME NEW reload \in BOOLEAN, NEW decls, LoadRequested(reload, decls), died = "no"
        PROVE  Next
    BY <2>1 DEF LoadRequested, Next, Readable
  <2>2. CASE LoadDone
    BY <2>2 DEF LoadDone, CloseTagFile, Next
  <2> QED
    BY <1>1, <2>1, <2>2 DEF Poll, Find, PrintTagsResults
<1>4. Work /\ died = "no" => [Next]_vars
  <2>1. CASE UnloadRemoved
    BY <2>1 DEF UnloadRemoved, Next, Types
  <2> QED
    BY <2>1 DEF Work, AddDirectoryRecursive, RemoveDirectoryRecursive, HandleImport,
                AddDirectory
<1>5. Watching => [Next]_vars
  BY DEF Watching, Change, DoIndexing, PutNoticed
<1> QED
  BY <1>2, <1>3, <1>4, <1>5 DEF LINext, Rest, liVars

(* The steps, one by one.                                                    *)
LEMMA ChangeInv ==
  ASSUME LIInv, NEW f \in Files, NEW content \in Contents \cup {Absent}, Change(f, content)
  PROVE  LIInv'
BY DEF LIInv, Types, TagFileOwned, AllAccounted, OnTheWay, Accounted, Watched, Change,
       vars, lockVars, boundVars

(* Reading an event: a watched file is noticed.                              *)
LEMMA DoIndexingInv ==
  ASSUME LIInv, NEW f \in Files, DoIndexing(f)
  PROVE  LIInv'
BY DEF LIInv, Types, TagFileOwned, AllAccounted, OnTheWay, Accounted, Watched, DoIndexing,
       vars, diskVars, lockVars, boundVars, histVars

(* The watcher puts the name it noticed.                                     *)
LEMMA PutNoticedInv ==
  ASSUME LIInv, PutNoticed
  PROVE  LIInv'
<1>1. noticed \in Files /\ queue' = Append(queue, noticed) /\ queue \in Seq(Files)
  BY DEF LIInv, Types, PutNoticed, Put
<1>2. queue' \in Seq(Files) /\ Range(queue') = Range(queue) \cup {noticed}
  BY <1>1, RangeOfAppend
<1> QED
  BY <1>1, <1>2, LocalIndexAssumption
  DEF LIInv, Types, TagFileOwned, AllAccounted, OnTheWay, Accounted, Watched, PutNoticed,
      vars, diskVars, lockVars, boundVars

(* The agent takes names from the queue.                                     *)
LEMMA GetRequestsInv ==
  ASSUME LIInv, GetRequests
  PROVE  LIInv'
<1>1. /\ agent' = [pc |-> "index", files |-> Range(queue), made |-> <<>>]
      /\ queue' = <<>> /\ queue \in Seq(Files) /\ agent.pc = "get"
  BY DEF LIInv, Types, GetRequests
<1>2. /\ agent'.pc = "index" /\ agent'.files = Range(queue) /\ agent'.made = <<>>
      /\ NamedIn(agent'.made) = {} /\ Range(queue') = {}
  BY <1>1, NamedInEmpty DEF Range
<1>3. Range(queue) \in SUBSET Files /\ IsFiniteSet(Range(queue))
  BY <1>1, RangeOfQueue
<1>4. Types'
  BY <1>1, <1>2, <1>3 DEF LIInv, Types, GetRequests, vars, diskVars, watchVars, lockVars
<1>5. TagFileOwned'
  BY <1>1, <1>2 DEF LIInv, TagFileOwned, GetRequests, lockVars, histVars
<1>6. AllAccounted'
  BY <1>2 DEF LIInv, AllAccounted, OnTheWay, Accounted, Watched, GetRequests, vars,
              watchVars, histVars
<1> QED
  BY <1>4, <1>5, <1>6 DEF LIInv

(* The tag file names the files of the batch.                                *)
LEMMA GenerateInv ==
  ASSUME LIInv, Generate
  PROVE  LIInv'
<1> DEFINE present == {f \in agent.files : disk[f] # Absent}
<1>1. /\ agent.pc = "index" /\ agent.files \in SUBSET Files /\ IsFiniteSet(agent.files)
      /\ agent' = [agent EXCEPT !.pc = "update", !.made = Written(present)]
  BY DEF LIInv, Types, Generate
<1>2. present \in SUBSET Files /\ IsFiniteSet(present)
  BY <1>1, FS_Subset
<1>3. \A f \in present : disk[f] \in Counts
  BY <1>1, LocalIndexAssumption DEF LIInv, Types
<1>4. Written(present) \in Seq(Declarations) /\ NamedIn(Written(present)) \subseteq present
  BY <1>2, <1>3, WrittenNames
<1> HIDE DEF present
<1>5. /\ agent'.pc = "update" /\ agent'.files = agent.files
      /\ agent'.made = Written(present)
  BY <1>1 DEF LIInv, Types
<1>6. NamedIn(agent'.made) \subseteq agent'.files
  BY <1>4, <1>5 DEF present
<1>7. Types'
  BY <1>1, <1>4, <1>5 DEF LIInv, Types, Generate, vars, diskVars, watchVars, lockVars
<1>8. TagFileOwned'
  BY <1>1, <1>6 DEF LIInv, TagFileOwned, Generate, lockVars
<1>9. AllAccounted'
  BY <1>5 DEF LIInv, AllAccounted, OnTheWay, Accounted, Watched, Generate, vars, watchVars
<1> QED
  BY <1>7, <1>8, <1>9 DEF LIInv

(* A failed batch leaves an empty tag file, or none.                         *)
LEMMA FailToGenerateInv ==
  ASSUME LIInv, NEW how, FailToGenerate(how)
  PROVE  LIInv'
<1>1. agent.pc = "index"
  BY DEF FailToGenerate
<1>2. /\ agent'.pc \in {"get", "update"} /\ agent'.files \in {{}, agent.files}
      /\ agent'.made = <<>> /\ NamedIn(agent'.made) = {}
      /\ agent' \in [pc : {"get", "index", "update", "load"}, files : SUBSET Files,
                     made : Seq(Declarations)]
  <2>1. <<>> \in Seq(Declarations) /\ NamedIn(<<>>) = {}
    BY NamedInEmpty
  <2>2. CASE how = "status"
    <3>1. agent' = [pc |-> "get", files |-> {}, made |-> <<>>]
      BY <2>2 DEF FailToGenerate, Idle
    <3> QED
      BY <2>1, <3>1
  <2>3. CASE how # "status"
    <3>1. agent' = [agent EXCEPT !.pc = "update", !.made = <<>>]
      BY <2>3 DEF FailToGenerate
    <3> QED
      BY <2>1, <3>1 DEF LIInv, Types
  <2> QED
    BY <2>2, <2>3
<1>3. IsFiniteSet(agent'.files)
  BY <1>2, FS_EmptySet DEF LIInv, Types
<1>4. Types'
  BY <1>2, <1>3 DEF LIInv, Types, FailToGenerate, vars, diskVars, watchVars, lockVars
<1>5. TagFileOwned'
  BY <1>1, <1>2 DEF LIInv, TagFileOwned, FailToGenerate, lockVars
<1>6. AllAccounted'
  BY <1>2 DEF LIInv, AllAccounted, OnTheWay, Accounted, Watched, FailToGenerate, vars,
              watchVars
<1> QED
  BY <1>4, <1>5, <1>6 DEF LIInv

(* The agent opens its tag file under the mutex.                             *)
LEMMA UpdateTableInv ==
  ASSUME LIInv, Update
  PROVE  LIInv'
<1>1. /\ agent.pc = "update" /\ owner = Nobody /\ owner' = "agent"
      /\ agent.made \in Seq(Declarations) /\ Open(agent.made)
      /\ agent' = [agent EXCEPT !.pc = "load"]
      /\ table' = table
  BY DEF LIInv, Types, Update, Lock, UpdateTagFile
<1>2. agent'.pc = "load" /\ agent'.files = agent.files /\ agent'.made = agent.made
  BY <1>1 DEF LIInv, Types
<1>3. tagfile' \in Seq(Declarations) /\ NamedIn(tagfile') \subseteq NamedIn(agent.made)
  BY <1>1, OpenNames
<1>4. Types'
  BY <1>1, <1>2, <1>3 DEF LIInv, Types, Update, diskVars, watchVars
<1>5. TagFileOwned'
  BY <1>1, <1>2, <1>3, LocalIndexAssumption DEF LIInv, TagFileOwned, Update, Threads
<1>6. AllAccounted'
  BY <1>1, <1>2 DEF LIInv, AllAccounted, OnTheWay, Accounted, Watched, Update, watchVars,
                    histVars
<1> QED
  BY <1>4, <1>5, <1>6 DEF LIInv

(* The files of the scan are of the directory that is imported.              *)
LEMMA AddDirectoryRecursiveInv ==
  ASSUME LIInv, NEW d \in Dirs, AddDirectoryRecursive(d)
  PROVE  LIInv'
<1>1. /\ worker' = [pc |-> "import", dir |-> d,
                    todo |-> {f \in Files : In({d}, f) /\ disk[f] # Absent}]
      /\ worker.pc = "idle"
  BY DEF AddDirectoryRecursive
<1>2. /\ worker'.pc = "import" /\ worker'.dir = d /\ worker'.todo \in SUBSET Files
      /\ \A f \in worker'.todo : In({d}, f)
  BY <1>1
<1>3. Types'
  BY <1>1, <1>2 DEF LIInv, Types, AddDirectoryRecursive, vars, diskVars, watchVars, lockVars
<1>4. TagFileOwned'
  BY DEF LIInv, TagFileOwned, AddDirectoryRecursive, lockVars, histVars
<1>5. AllAccounted'
  BY <1>1, <1>2 DEF LIInv, AllAccounted, OnTheWay, Accounted, Watched,
                    AddDirectoryRecursive, vars, watchVars, histVars
<1> QED
  BY <1>3, <1>4, <1>5 DEF LIInv

(* The worker puts a file of the directory it imports.                       *)
LEMMA HandleImportInv ==
  ASSUME LIInv, NEW f \in Files, HandleImport(f)
  PROVE  LIInv'
<1>1. /\ worker.pc = "import" /\ f \in worker.todo /\ In({worker.dir}, f)
      /\ queue' = Append(queue, f) /\ queue \in Seq(Files)
      /\ worker' = [worker EXCEPT !.todo = worker.todo \ {f}]
  BY DEF LIInv, Types, AllAccounted, HandleImport, Put
<1>2. queue' \in Seq(Files) /\ Range(queue') = Range(queue) \cup {f}
  BY <1>1, RangeOfAppend
<1>3. /\ worker'.pc = "import" /\ worker'.dir = worker.dir
      /\ worker'.todo = worker.todo \ {f}
  BY <1>1 DEF LIInv, Types
<1>4. Types'
  BY <1>1, <1>2, <1>3 DEF LIInv, Types, HandleImport, vars, diskVars, watchVars, lockVars
<1>5. TagFileOwned'
  BY DEF LIInv, TagFileOwned, HandleImport, lockVars
<1>6. AllAccounted'
  BY <1>1, <1>2, <1>3 DEF LIInv, AllAccounted, OnTheWay, Accounted, Watched,
                          HandleImport, vars, watchVars
<1> QED
  BY <1>4, <1>5, <1>6 DEF LIInv

(* What was imported is watched from here on.                                *)
LEMMA AddDirectoryInv ==
  ASSUME LIInv, AddDirectory
  PROVE  LIInv'
<1>1. /\ worker.pc = "import" /\ watched' = watched \cup {worker.dir}
      /\ worker.dir \in Dirs
      /\ worker' = [worker EXCEPT !.pc = "idle"]
  BY DEF LIInv, Types, AddDirectory
<1>2. worker'.pc = "idle"
  BY <1>1 DEF LIInv, Types
<1>3. \A f : Accounted(f) => Watched(f)' \/ f \in excused
  BY <1>1 DEF Accounted, Watched, In
<1>4. \A f : Watched(f) => Watched(f)'
  BY <1>1 DEF Watched, In
<1>5. Types'
  BY <1>1, <1>2 DEF LIInv, Types, AddDirectory, vars, diskVars, lockVars
<1>6. TagFileOwned'
  BY DEF LIInv, TagFileOwned, AddDirectory, lockVars, histVars
<1>7. AllAccounted'
  BY <1>2, <1>3, <1>4 DEF LIInv, AllAccounted, OnTheWay, Accounted, AddDirectory, vars, histVars
<1> QED
  BY <1>5, <1>6, <1>7 DEF LIInv

(* The files of the watches that go have the prefix that is unloaded next.   *)
LEMMA RemoveDirectoryRecursiveInv ==
  ASSUME LIInv, NEW d \in Dirs, RemoveDirectoryRecursive(d), table.loaded \in SUBSET Files
  PROVE  LIInv'
<1>1. /\ worker' = [pc |-> "unload", dir |-> d, todo |-> {}]
      /\ worker.pc = "idle"
      /\ watched' = {w \in watched : ~HasPrefixString(w, d)}
      /\ events' = {f \in events : In(watched', f)}
  BY DEF RemoveDirectoryRecursive
<1>2. worker'.pc = "unload" /\ worker'.dir = d /\ worker'.todo = {}
  BY <1>1
<1>3. ASSUME NEW f \in Files, Accounted(f) PROVE Accounted(f)'
  <2>1. CASE f \in excused
    BY <2>1 DEF RemoveDirectoryRecursive, Accounted
  <2>2. CASE Watched(f)
    <3>1. PICK w \in watched : f = w \o <<"/">> \o Basename(f)
      BY <2>2 DEF Watched, In
    <3>2. CASE HasPrefixString(w, d)
      <4>1. w \in Dirs
        BY DEF LIInv, Types
      <4>2. HasPrefixString(f, d)
        BY <3>1, <3>2, <4>1, PrefixOfFile
      <4> QED
        BY <1>2, <4>2 DEF Accounted
    <3>3. CASE ~HasPrefixString(w, d)
      BY <1>1, <3>1, <3>3 DEF Accounted, Watched, In
    <3> QED
      BY <3>2, <3>3
  <2> QED
    BY <1>1, <1>3, <2>1, <2>2 DEF Accounted
<1>4. OnTheWay' \subseteq OnTheWay /\ OnTheWay \in SUBSET Files
  BY <1>1, RangeOfQueue DEF LIInv, Types, OnTheWay, RemoveDirectoryRecursive
<1>5. Types'
  BY <1>1, <1>2 DEF LIInv, Types, RemoveDirectoryRecursive, vars, diskVars, lockVars
<1>6. TagFileOwned'
  BY DEF LIInv, TagFileOwned, RemoveDirectoryRecursive, lockVars
<1>7. AllAccounted'
  <2>1. table' = table
    BY DEF RemoveDirectoryRecursive, vars
  <2>2. \A f \in events' : Watched(f)'
    BY <1>1 DEF Watched
  <2> QED
    BY <1>2, <1>3, <1>4, <2>1, <2>2 DEF LIInv, AllAccounted
<1> QED
  BY <1>5, <1>6, <1>7 DEF LIInv

(* What is unloaded had the prefix; what stays is accounted for otherwise.   *)
LEMMA UnloadRemovedInv ==
  ASSUME LIInv, TTInv, UnloadRemoved
  PROVE  LIInv'
<1> DEFINE d == worker.dir
<1>1. /\ worker.pc = "unload" /\ owner = Nobody
      /\ excused' = (excused \ FilesIn(d)) \cup (Pending \cap FilesIn(d))
      /\ worker' = [worker EXCEPT !.pc = "idle"]
  BY DEF UnloadRemoved
<1>2. worker'.pc = "idle"
  BY <1>1 DEF LIInv, Types
<1>3. table'.loaded = {f \in table.loaded : ~HasPrefixString(f, d)}
  BY UnloadInDirLoads DEF UnloadRemoved
<1>4. table.loaded \in SUBSET Files /\ OnTheWay \in SUBSET Files /\ OnTheWay' = OnTheWay
  BY LoadedAreFiles, RangeOfQueue DEF LIInv, Types, OnTheWay, UnloadRemoved, watchVars
<1>5. ASSUME NEW f \in OnTheWay \cup table'.loaded PROVE Accounted(f)'
  <2>1. f \in Files /\ Accounted(f)
    BY <1>3, <1>4 DEF LIInv, AllAccounted
  <2>2. CASE Watched(f)
    BY <2>2 DEF Accounted, Watched, UnloadRemoved, watchVars
  <2>3. CASE f \in FilesIn(d) /\ ~Watched(f)
    <3>1. f \notin events /\ f \notin table'.loaded
      BY <1>3, <2>3 DEF LIInv, AllAccounted, FilesIn
    <3>2. f \in Pending
      BY <3>1 DEF OnTheWay, Pending
    <3> QED
      BY <1>1, <2>3, <3>2 DEF Accounted
  <2>4. CASE f \notin FilesIn(d) /\ ~Watched(f)
    BY <1>1, <2>1, <2>4 DEF Accounted, FilesIn
  <2> QED
    BY <2>2, <2>3, <2>4
<1>6. Types'
  BY <1>1, <1>2 DEF LIInv, Types, UnloadRemoved, diskVars, watchVars, lockVars
<1>7. TagFileOwned'
  BY <1>1, LocalIndexAssumption DEF LIInv, TagFileOwned, UnloadRemoved, lockVars, Threads
<1>8. AllAccounted'
  <2>1. \A f \in events' : Watched(f)'
    BY DEF LIInv, AllAccounted, Watched, UnloadRemoved, watchVars
  <2> QED
    BY <1>2, <1>4, <1>5, <2>1 DEF AllAccounted
<1> QED
  BY <1>6, <1>7, <1>8 DEF LIInv

(* A lookup changes no table.                                                *)
LEMMA FindInv ==
  ASSUME LIInv, NEW q, Find(q)
  PROVE  LIInv'
<1>1. owner = Nobody /\ owner' = "poll" /\ tagfile' = <<>> /\ NamedIn(tagfile') = {}
  BY NamedInEmpty DEF LIInv, TagFileOwned, Find, Lock
<1>2. PICK cut : poll' = [pc |-> "print", query |-> q, matches |-> cut, answer |-> Nobody]
  BY DEF Find
<1>3. Types'
  BY <1>1, <1>2 DEF LIInv, Types, Find, vars, diskVars, watchVars
<1>4. TagFileOwned'
  BY <1>1, LocalIndexAssumption DEF LIInv, TagFileOwned, Find, Threads
<1>5. AllAccounted'
  BY DEF LIInv, AllAccounted, OnTheWay, Accounted, Watched, Find, vars, watchVars, histVars
<1> QED
  BY <1>3, <1>4, <1>5 DEF LIInv

(* Printing an answer changes no table.                                      *)
LEMMA PrintTagsResultsInv ==
  ASSUME LIInv, PrintTagsResults
  PROVE  LIInv'
<1>1. poll.pc = "print" /\ owner' = Nobody /\ tagfile = <<>> /\ tagfile' = tagfile
  BY DEF LIInv, TagFileOwned, PrintTagsResults, Unlock
<1>2. PICK a : poll' = [poll EXCEPT !.pc = "idle", !.matches = {}, !.answer = a]
  BY DEF PrintTagsResults
<1>3. /\ poll'.pc = "idle"
      /\ poll' = [pc |-> poll'.pc, query |-> poll'.query, matches |-> poll'.matches,
                  answer |-> poll'.answer]
  BY <1>2 DEF LIInv, Types
<1>4. Types'
  BY <1>3 DEF LIInv, Types, PrintTagsResults, vars, diskVars, watchVars
<1>5. TagFileOwned'
  BY <1>1, <1>3, LocalIndexAssumption DEF LIInv, TagFileOwned, PrintTagsResults, Threads
<1>6. AllAccounted'
  BY DEF LIInv, AllAccounted, OnTheWay, Accounted, Watched, PrintTagsResults, vars,
         watchVars, histVars
<1> QED
  BY <1>4, <1>5, <1>6 DEF LIInv

(* What a client has loaded is excused.                                      *)
LEMMA LoadRequestedInv ==
  ASSUME LIInv, TTInv, NEW reload \in BOOLEAN, NEW decls \in TagFiles,
         LoadRequested(reload, decls)
  PROVE  LIInv'
<1>1. /\ owner = Nobody /\ owner' = "poll"
      /\ decls \in Seq(Declarations) /\ Open(decls)
      /\ poll' = [poll EXCEPT !.pc = "load"]
      /\ excused' = excused \cup NamedIn(decls)
  BY LocalIndexAssumption DEF LoadRequested, Lock
<1>2. /\ poll'.pc = "load"
      /\ poll' = [pc |-> poll'.pc, query |-> poll'.query, matches |-> poll'.matches,
                  answer |-> poll'.answer]
  BY <1>1 DEF LIInv, Types
<1>3. tagfile' \in Seq(Declarations) /\ NamedIn(tagfile') \subseteq NamedIn(decls)
  BY <1>1, OpenNames
<1>4. table'.loaded \subseteq table.loaded
  <2>1. CASE reload
    <3>1. table' = Empty
      BY <2>1, ReloadInv DEF LoadRequested, Readable
    <3> QED
      BY <3>1 DEF Empty
  <2>2. CASE ~reload
    BY <2>2 DEF LoadRequested, UpdateTagFile
  <2> QED
    BY <2>1, <2>2
<1>5. Types'
  BY <1>2, <1>3 DEF LIInv, Types, LoadRequested, diskVars, watchVars
<1>6. TagFileOwned'
  BY <1>1, <1>2, <1>3, LocalIndexAssumption DEF LIInv, TagFileOwned, LoadRequested, Threads
<1>7. AllAccounted'
  BY <1>1, <1>4 DEF LIInv, AllAccounted, OnTheWay, Accounted, Watched, LoadRequested,
                    watchVars
<1> QED
  BY <1>5, <1>6, <1>7 DEF LIInv

(* A declaration loads a file that its tag file names.                       *)
LEMMA ReadDeclarationInv ==
  ASSUME LIInv, TTInv, NEW t \in Threads, t # "worker", ReadDeclaration(t)
  PROVE  LIInv'
<1> DEFINE decl == Head(tagfile)
<1>1. /\ owner = t /\ tagfile # <<>> /\ tagfile' = Tail(tagfile)
      /\ tagfile \in Seq(Declarations)
  BY DEF LIInv, Types, ReadDeclaration
<1>2. /\ decl \in Declarations
      /\ tagfile' \in Seq(Declarations)
      /\ NamedIn(tagfile') \subseteq NamedIn(tagfile)
      /\ decl.kind \in {"file", "deleted"} => decl.file \in NamedIn(tagfile)
  BY <1>1, NamedInTail
<1>3. table'.loaded \subseteq table.loaded \cup NamedIn(tagfile)
  <2>1. CASE decl.kind = "file" /\ ParseFileDeclaration(decl.file, decl.counts)
    BY <1>2, <2>1, NamedDeclaration, ParseFileLoads
  <2>2. CASE decl.kind = "deleted" /\ ParseDeletedDeclaration(decl.file)
    BY <1>2, <2>2, NamedDeclaration, ParseDeletedLoads
  <2>3. CASE ParseHeaderDeclaration(FALSE) \/ ParseHeaderDeclaration(TRUE)
    BY <2>3 DEF ParseHeaderDeclaration
  <2> QED
    BY <2>1, <2>2, <2>3 DEF ReadDeclaration
<1> HIDE DEF decl
<1>4. \A f \in NamedIn(tagfile) : f \in excused \/ f \in OnTheWay
  BY <1>1 DEF LIInv, TagFileOwned, Threads, OnTheWay
<1>5. \A f \in NamedIn(tagfile) : Accounted(f)
  BY <1>4 DEF LIInv, AllAccounted, Accounted
<1>6. Types'
  BY <1>2 DEF LIInv, Types, ReadDeclaration, diskVars, watchVars
<1>7. TagFileOwned'
  BY <1>1, <1>2, LocalIndexAssumption DEF LIInv, TagFileOwned, ReadDeclaration, histVars, Threads
<1>8. AllAccounted'
  BY <1>3, <1>5 DEF LIInv, AllAccounted, OnTheWay, Accounted, Watched, ReadDeclaration,
                    watchVars, histVars
<1> QED
  BY <1>6, <1>7, <1>8 DEF LIInv

(* The batch is done once its tag file was read.                             *)
LEMMA DoneRequestsInv ==
  ASSUME LIInv, DoneRequests
  PROVE  LIInv'
<1>1. /\ owner = "agent" /\ owner' = Nobody /\ tagfile = <<>> /\ tagfile' = <<>>
      /\ table' = table
      /\ agent' = [pc |-> "get", files |-> {}, made |-> <<>>]
  BY DEF DoneRequests, CloseTagFile, Unlock, EndOfTagFile, Idle
<1>2. /\ agent'.pc = "get" /\ agent'.files = {} /\ agent'.made = <<>>
      /\ NamedIn(agent'.made) = {} /\ IsFiniteSet(agent'.files)
  BY <1>1, NamedInEmpty, FS_EmptySet
<1>3. Types'
  BY <1>1, <1>2 DEF LIInv, Types, DoneRequests, CloseTagFile, diskVars, watchVars
<1>4. TagFileOwned'
  BY <1>1, <1>2, LocalIndexAssumption DEF LIInv, TagFileOwned, DoneRequests, Threads
<1>5. AllAccounted'
  BY <1>1, <1>2 DEF LIInv, AllAccounted, OnTheWay, Accounted, Watched, DoneRequests,
                    CloseTagFile, watchVars, histVars
<1> QED
  BY <1>3, <1>4, <1>5 DEF LIInv

(* A client's tag file was read.                                             *)
LEMMA LoadDoneInv ==
  ASSUME LIInv, LoadDone
  PROVE  LIInv'
<1>1. /\ owner = "poll" /\ owner' = Nobody /\ tagfile = <<>> /\ tagfile' = <<>>
      /\ table' = table
      /\ poll' = [poll EXCEPT !.pc = "idle"]
  BY DEF LoadDone, CloseTagFile, Unlock, EndOfTagFile
<1>2. /\ poll'.pc = "idle"
      /\ poll' = [pc |-> poll'.pc, query |-> poll'.query, matches |-> poll'.matches,
                  answer |-> poll'.answer]
  BY <1>1 DEF LIInv, Types
<1>3. Types'
  BY <1>1, <1>2 DEF LIInv, Types, LoadDone, CloseTagFile, diskVars, watchVars
<1>4. TagFileOwned'
  BY <1>1, <1>2, LocalIndexAssumption DEF LIInv, TagFileOwned, LoadDone, Threads
<1>5. AllAccounted'
  BY <1>1 DEF LIInv, AllAccounted, OnTheWay, Accounted, Watched, LoadDone, CloseTagFile,
              watchVars, histVars
<1> QED
  BY <1>3, <1>4, <1>5 DEF LIInv

(* The invariants hold at first.                                             *)
LEMMA LIInitInv == LIInit => LIInv /\ TTInv
<1> SUFFICES ASSUME LIInit PROVE LIInv
  BY InitInv DEF LIInit
<1>1. /\ agent = [pc |-> "get", files |-> {}, made |-> <<>>]
      /\ worker = [pc |-> "idle", dir |-> Nobody, todo |-> {}]
      /\ poll = [pc |-> "idle", query |-> Nobody, matches |-> {}, answer |-> Nobody]
      /\ queue = <<>> /\ tagfile = <<>> /\ owner = Nobody
  BY DEF LIInit
<1>2. /\ agent.pc = "get" /\ agent.files = {} /\ agent.made = <<>>
      /\ worker.pc = "idle" /\ poll.pc = "idle"
      /\ IsFiniteSet(agent.files) /\ NamedIn(<<>>) = {} /\ Range(queue) = {}
  BY <1>1, FS_EmptySet, NamedInEmpty DEF Range
<1>3. table.loaded = {}
  BY DEF LIInit, Init, Empty
<1>4. Types
  BY <1>1, <1>2, LocalIndexAssumption DEF Types, LIInit
<1>5. TagFileOwned
  BY <1>1, <1>2, LocalIndexAssumption DEF TagFileOwned, Threads
<1>6. AllAccounted
  BY <1>1, <1>2, <1>3, LocalIndexAssumption DEF AllAccounted, OnTheWay, LIInit
<1> QED
  BY <1>4, <1>5, <1>6 DEF LIInv

(* Every step keeps both invariants.                                         *)
LEMMA LIStepInv == LIInv /\ TTInv /\ [LINext]_liVars => LIInv' /\ TTInv'
<1> SUFFICES ASSUME LIInv, TTInv, [LINext]_liVars PROVE LIInv'
  BY TableSteps, StepInv DEF LIInv
<1>1. CASE Watching
  BY <1>1, ChangeInv, DoIndexingInv, PutNoticedInv DEF Watching
<1>2. CASE Agent
  BY <1>2, GetRequestsInv, GenerateInv, FailToGenerateInv, UpdateTableInv,
     ReadDeclarationInv, DoneRequestsInv DEF Agent, Threads
<1>3. CASE Work
  BY <1>3, AddDirectoryRecursiveInv, RemoveDirectoryRecursiveInv, HandleImportInv,
     AddDirectoryInv, UnloadRemovedInv, LoadedAreFiles DEF Work
<1>4. CASE Poll
  BY <1>4, FindInv, PrintTagsResultsInv, LoadRequestedInv, ReadDeclarationInv, LoadDoneInv
  DEF Poll, Threads
<1>5. CASE UNCHANGED liVars
  BY <1>5 DEF LIInv, Types, TagFileOwned, AllAccounted, OnTheWay, Accounted, Watched, liVars,
              vars, diskVars, watchVars, lockVars, histVars
<1> QED
  BY <1>1, <1>2, <1>3, <1>4, <1>5 DEF LINext, Rest

-----------------------------------------------------------------------------
(* The invariant, of the index and of its table together.                    *)
THEOREM LocalInvariance == LISpec => [](LIInv /\ TTInv)
BY LIInitInv, LIStepInv, PTL DEF LISpec

(* Whatever the three threads do, each declaration that is read, each unload *)
(* and each reload is a step of TagsTable: queries, generators and the       *)
(* watcher touch the table in no other way.                                  *)
THEOREM UsesTheTable == LISpec => Spec
<1>1. LIInit => Init
  BY DEF LIInit
<1>2. LIInv /\ TTInv /\ [LINext]_liVars => [Next]_vars
  BY TableSteps DEF LIInv
<1> QED
  BY <1>1, <1>2, LocalInvariance, PTL DEF LISpec, Spec

(* No thread of the local index ever meets a deleted result: its table keeps *)
(* every index to results that are alive.                                    *)
THEOREM LocalResultsOwned == LISpec => []ResultsOwned
BY UsesTheTable, OwnershipIsKept, PTL

(* The indices of the table agree, whatever the threads do.                  *)
THEOREM LocalIndicesAgree == LISpec => []IndicesAgree
BY UsesTheTable, IndicesKeepAgreeing, PTL

(* The local index changes files as a whole and one at a time.               *)
THEOREM LocalImplementsTheRelation == LISpec => ImplementsRelation
BY UsesTheTable, ImplementsTheRelation, PTL

(* At rest nothing of a removed directory is in the table, but what was with *)
(* the agent, or on its way to it, at the unload, or what a client loaded:   *)
(* the prefix by which watches are removed is the prefix by which files are  *)
(* unloaded, and events that still wait are dropped with their watch.        *)
THEOREM RemovedStaysOut == LISpec => []RemovedStayOut
<1>1. LIInv => RemovedStayOut
  BY DEF LIInv, AllAccounted, Accounted, RemovedStayOut, AtRest
<1> QED
  BY <1>1, LocalInvariance, PTL

-----------------------------------------------------------------------------
(* The members of S with key a; and the numbers up to how many each key has. *)
Keyed(S, k, a) == {r \in S : k[r] = a}
Numbered(A, N, count) == {e \in A \X (1 .. N) : e[2] <= count[e[1]]}

(* They are as many.                                                         *)
LEMMA CountedByKey ==
  ASSUME NEW S, IsFiniteSet(S), NEW A, NEW k \in [S -> A], NEW N \in Nat,
         NEW count, \A a \in A : count[a] = Cardinality(Keyed(S, k, a)),
         Cardinality(S) <= N
  PROVE  Cardinality(Numbered(A, N, count)) = Cardinality(S)
<1> DEFINE E == {e \in A \X (1 .. N) : e[2] <= count[e[1]]}
           Of(a) == {r \in S : k[r] = a}
           c == [a \in A |-> CHOOSE f : f \in Bijection(Of(a), 1 .. count[a])]
           g == [r \in S |-> <<k[r], c[k[r]][r]>>]
<1>1. ASSUME NEW a \in A
      PROVE  count[a] \in 0 .. N /\ c[a] \in Bijection(Of(a), 1 .. count[a])
  <2>1. /\ IsFiniteSet(Of(a)) /\ Cardinality(Of(a)) <= Cardinality(S)
    BY FS_Subset
  <2>2. count[a] = Cardinality(Of(a)) /\ count[a] \in Nat /\ Cardinality(S) \in Nat
    BY <2>1, FS_CardinalityType DEF Keyed
  <2>3. IsFiniteSet(1 .. count[a]) /\ Cardinality(1 .. count[a]) = count[a]
    BY <2>2, FS_Interval
  <2>4. ExistsBijection(Of(a), 1 .. count[a])
    BY <2>1, <2>2, <2>3, FS_SameCardinalityBij
  <2>5. \E f : f \in Bijection(Of(a), 1 .. count[a])
    BY <2>4 DEF ExistsBijection
  <2>6. c[a] \in Bijection(Of(a), 1 .. count[a])
    BY <2>5
  <2> QED
    BY <2>1, <2>2, <2>6
<1>2. ASSUME NEW r \in S
      PROVE  k[r] \in A /\ r \in Of(k[r]) /\ c[k[r]][r] \in 1 .. count[k[r]]
  <2>1. k[r] \in A /\ r \in Of(k[r])
    OBVIOUS
  <2>2. c[k[r]] \in [Of(k[r]) -> 1 .. count[k[r]]]
    BY <1>1, <2>1 DEF Bijection, Injection
  <2> QED
    BY <2>1, <2>2
<1> HIDE DEF c
<1>3. g \in [S -> E]
  <2>1. ASSUME NEW a \in A, NEW i \in 1 .. count[a] PROVE <<a, i>> \in E
    <3>1. count[a] \in 0 .. N
      BY <1>1
    <3>2. i \in 1 .. N /\ i <= count[a]
      BY <3>1
    <3> QED
      BY <3>2
  <2> HIDE DEF E
  <2>2. ASSUME NEW r \in S PROVE <<k[r], c[k[r]][r]>> \in E
    BY <1>2, <2>1
  <2> QED
    BY <2>2
<1>4. ASSUME NEW r \in S, NEW s \in S, g[r] = g[s] PROVE r = s
  <2>1. k[r] = k[s] /\ c[k[r]][r] = c[k[r]][s]
    BY <1>4
  <2>2. k[r] \in A /\ r \in Of(k[r]) /\ s \in Of(k[r])
    BY <1>2, <2>1
  <2>3. IsInjective(c[k[r]]) /\ DOMAIN c[k[r]] = Of(k[r])
    BY <1>1, <2>2 DEF Bijection, Injection
  <2> QED
    BY <2>1, <2>2, <2>3 DEF IsInjective
<1>5. ASSUME NEW e \in E PROVE \E r \in S : g[r] = e
  <2>1. /\ e[1] \in A /\ e = <<e[1], e[2]>> /\ e[2] \in 1 .. N
        /\ e[2] <= count[e[1]]
    OBVIOUS
  <2>2. e[2] \in 1 .. count[e[1]]
    <3>1. count[e[1]] \in 0 .. N
      BY <1>1, <2>1
    <3> QED
      BY <2>1, <3>1
  <2>3. \A i \in 1 .. count[e[1]] : \E r \in Of(e[1]) : c[e[1]][r] = i
    BY <1>1, <2>1 DEF Bijection, Surjection
  <2>4. PICK r \in Of(e[1]) : c[e[1]][r] = e[2]
    BY <2>2, <2>3
  <2> QED
    BY <2>1, <2>4
<1> HIDE DEF g, E
<1>6. g \in Bijection(S, E)
  BY <1>3, <1>4, <1>5 DEF Bijection, Injection, Surjection, IsInjective
<1>7. ExistsBijection(S, E)
  BY <1>6 DEF ExistsBijection
<1>8. Cardinality(E) = Cardinality(S)
  BY <1>7, FS_Bijection
<1> QED
  BY <1>8 DEF E, Numbered

(* What a query finds is what the table holds of what it asks for.           *)
LEMMA FoundIsHeld ==
  ASSUME TTInv, NEW q \in Queries
  PROVE  /\ Found(q) \subseteq table.map
         /\ \A r \in table.map :
              r \in Found(q) <=> Asked(q, table.heap[r].file, table.heap[r].tag)
<1>1. TableOK(table, fileindex) /\ fileindex \in BOOLEAN
  BY DEF TTInv
<1>2. \A r \in table.map : /\ table.heap[r].tag \in Tags /\ table.heap[r].file \in Files
                           /\ table.heap[r].file \in table.loaded
  BY <1>1, MapObjects DEF TableOK
<1>3. CASE q.command = "lookup-tag-exact"
  BY <1>2, <1>3 DEF Found, Asked, FindTags
<1>4. CASE q.command = "lookup-tag-prefix-regexp"
  BY <1>2, <1>4 DEF Found, Asked, FindRegexpTags, FindTags
<1>5. CASE q.command = "lookup-tags-in-file"
  <2>1. ASSUME fileindex PROVE FindTagsByFile(q.arg) = {r \in table.map : table.heap[r].file = q.arg}
    <3>1. table.indexed = table.loaded /\ table.loaded \subseteq Files
      BY <1>1, <2>1 DEF TableOK, TableType
    <3>2. CASE q.arg \in table.indexed
      BY <1>1, <2>1, <3>1, <3>2 DEF FindTagsByFile, TableOK, OfFile
    <3>3. CASE q.arg \notin table.indexed
      BY <1>2, <3>1, <3>3 DEF FindTagsByFile
    <3> QED
      BY <3>2, <3>3
  <2> QED
    BY <1>5, <2>1 DEF Found, Asked
<1> QED
  BY <1>3, <1>4, <1>5, LocalIndexAssumption

(* How often a query finds a tag in a file.                                  *)
LEMMA HeldIsCounted ==
  ASSUME TTInv, NEW q \in Queries, NEW f \in Files, NEW t \in Tags
  PROVE  Holds(q, f, t) = Cardinality({r \in Found(q) : table.heap[r] = [tag |-> t, file |-> f]})
<1> DEFINE R == {r \in Found(q) : table.heap[r] = [tag |-> t, file |-> f]}
<1>1. TableOK(table, fileindex)
  BY DEF TTInv
<1>2. ASSUME NEW r \in table.map
      PROVE  /\ table.heap[r] = [tag |-> t, file |-> f]
                  <=> table.heap[r].tag = t /\ table.heap[r].file = f
             /\ table.heap[r].file \in table.loaded
  <2>1. table.heap[r] \in Objects
    BY <1>1, MapObjects DEF TTInv
  <2> QED
    BY <1>1, <2>1 DEF Objects, TableOK
<1>3. \A r \in table.map : r \in Found(q) <=> Asked(q, table.heap[r].file, table.heap[r].tag)
  BY FoundIsHeld
<1>4. Found(q) \subseteq table.map
  BY FoundIsHeld
<1>5. CASE f \in table.loaded /\ Asked(q, f, t)
  <2>1. R = {r \in FindTags(t) : table.heap[r].file = f}
    BY <1>2, <1>3, <1>4, <1>5 DEF FindTags
  <2>2. Holds(q, f, t) = Cardinality({r \in FindTags(t) : table.heap[r].file = f})
    BY <1>5 DEF Holds, Content
  <2> QED
    BY <2>1, <2>2
<1>6. CASE ~(f \in table.loaded /\ Asked(q, f, t))
  <2>1. R = {}
    BY <1>2, <1>3, <1>4, <1>6
  <2> QED
    BY <1>6, <2>1, FS_EmptySet DEF Holds
<1> QED
  BY <1>5, <1>6

(* What a query finds is as much as the table holds of it.                   *)
LEMMA TotalIsFound ==
  ASSUME TTInv, NEW q \in Queries
  PROVE  /\ IsFiniteSet(Found(q)) /\ Cardinality(Found(q)) \in Nat
         /\ Total(q) = Cardinality(Found(q))
<1> DEFINE S == Found(q)
           A == Files \X Tags
           N == Cardinality(Results)
           k == [r \in S |-> <<table.heap[r].file, table.heap[r].tag>>]
           count == [a \in A |-> Holds(q, a[1], a[2])]
<1>1. TableOK(table, fileindex) /\ S \subseteq table.map /\ table.map \subseteq Results
  BY FoundIsHeld DEF TTInv, TableOK, TableType
<1>2. IsFiniteSet(Results) /\ N \in Nat
  BY TagsTableAssumption, FS_CardinalityType
<1>3. IsFiniteSet(S) /\ Cardinality(S) \in Nat /\ Cardinality(S) <= N
  BY <1>1, <1>2, FS_Subset, FS_CardinalityType
<1>4. \A r \in S : /\ table.heap[r].tag \in Tags /\ table.heap[r].file \in Files
                   /\ table.heap[r] \in Objects
  BY <1>1, MapObjects DEF TTInv
<1>5. k \in [S -> A]
  BY <1>4
<1>6. ASSUME NEW a \in A
      PROVE  count[a] = Cardinality(Keyed(S, k, a))
  <2>1. a[1] \in Files /\ a[2] \in Tags /\ a = <<a[1], a[2]>>
    OBVIOUS
  <2>2. \A r \in S : table.heap[r] = [tag |-> a[2], file |-> a[1]]
                       <=> table.heap[r].tag = a[2] /\ table.heap[r].file = a[1]
    BY <1>4 DEF Objects
  <2>3. \A r \in S : k[r] = a <=> table.heap[r].tag = a[2] /\ table.heap[r].file = a[1]
    BY <2>1
  <2>4. Keyed(S, k, a) = {r \in S : table.heap[r] = [tag |-> a[2], file |-> a[1]]}
    BY <2>2, <2>3 DEF Keyed
  <2> HIDE DEF k
  <2> QED
    BY <2>1, <2>4, HeldIsCounted
<1> HIDE DEF S, A, N, k, count
<1>7. Cardinality(Numbered(A, N, count)) = Cardinality(S)
  BY <1>2, <1>3, <1>5, <1>6, CountedByKey
<1>8. Total(q) = Cardinality(Numbered(A, N, count))
  <2>1. \A e \in A \X (1 .. N) : count[e[1]] = Holds(q, e[1][1], e[1][2])
    BY DEF count
  <2>2. Numbered(A, N, count) = {e \in A \X (1 .. N) : e[2] <= Holds(q, e[1][1], e[1][2])}
    BY <2>1 DEF Numbered
  <2> QED
    BY <2>2 DEF Total, A, N
<1> QED
  BY <1>3, <1>7, <1>8 DEF S

(* While the poll thread prints, its results are still what its query finds: *)
(* it has the mutex, and no tag file is open.                                *)
PrintOK ==
  poll.pc = "print" => poll.query \in Queries /\ poll.matches \in Cut(Found(poll.query))

(* At first nobody prints.                                                   *)
LEMMA PrintInitOK == LIInit => PrintOK
BY DEF LIInit, PrintOK

(* Nobody else touches the table meanwhile.                                  *)
LEMMA PrintStepOK ==
  ASSUME LIInv, PrintOK, [LINext]_liVars
  PROVE  PrintOK'
<1> SUFFICES ASSUME poll'.pc = "print"
             PROVE  (poll.query \in Queries /\ poll.matches \in Cut(Found(poll.query)))'
  BY DEF PrintOK
<1>a. ASSUME UNCHANGED vars PROVE Found(poll.query)' = Found(poll'.query)
  <2>1. table' = table /\ fileindex' = fileindex
    BY <1>a DEF vars
  <2>2. FindTags(poll.query.arg)' = FindTags(poll'.query.arg)
    BY <2>1 DEF FindTags
  <2>3. FindRegexpTags(poll.query.arg)' = FindRegexpTags(poll'.query.arg)
    BY <2>1 DEF FindRegexpTags, FindTags
  <2>4. FindTagsByFile(poll.query.arg)' = FindTagsByFile(poll'.query.arg)
    BY <2>1 DEF FindTagsByFile
  <2> QED
    BY <2>1, <2>2, <2>3, <2>4 DEF Found
<1>1. CASE \E q \in Queries : Find(q)
  <2>1. PICK q \in Queries : Find(q)
    BY <1>1
  <2>2. PICK cut \in Cut(Found(q)) :
          poll' = [pc |-> "print", query |-> q, matches |-> cut, answer |-> Nobody]
    BY <2>1 DEF Find
  <2>3. poll'.query = q /\ poll'.matches \in Cut(Found(q))
    BY <2>2
  <2>4. Found(poll.query)' = Found(q)
    BY <2>1, <2>3, <1>a DEF Find
  <2> QED
    BY <2>3, <2>4 DEF Cut
<1>2. ASSUME poll' = poll, UNCHANGED vars
      PROVE  (poll.query \in Queries /\ poll.matches \in Cut(Found(poll.query)))'
  <2>1. Found(poll.query)' = Found(poll.query)
    BY <1>2, <1>a
  <2> QED
    BY <1>2, <2>1 DEF PrintOK, Cut
<1>3. CASE poll' # poll
  <2>1. Poll
    BY <1>3 DEF LINext, Rest, liVars, Watching, Change, DoIndexing, PutNoticed,
       Agent, GetRequests, Generate, Update, ReadDeclaration, DoneRequests, FailToGenerate,
       Work, AddDirectoryRecursive, RemoveDirectoryRecursive, HandleImport, AddDirectory,
       UnloadRemoved
  <2> QED
    BY <1>1, <1>3, <2>1 DEF Poll, PrintTagsResults, LoadRequested, ReadDeclaration, LoadDone,
                            LIInv, Types
<1>4. CASE poll' = poll
  <2>1. poll.pc = "print" /\ owner = "poll" /\ tagfile = <<>>
    BY <1>4 DEF LIInv, TagFileOwned
  <2>2. "poll" # Nobody
    BY LocalIndexAssumption DEF Threads
  <2>3. UNCHANGED vars
    BY <1>4, <2>1, <2>2
    DEF LINext, Rest, liVars, Watching, Change, DoIndexing, PutNoticed,
        Agent, GetRequests, Generate, Update, Lock, ReadDeclaration, DoneRequests, CloseTagFile,
        Unlock, FailToGenerate, Work, AddDirectoryRecursive, RemoveDirectoryRecursive,
        HandleImport, AddDirectory, UnloadRemoved, Poll, Find, PrintTagsResults,
        LoadRequested, LoadDone
  <2> QED
    BY <1>2, <1>4, <2>3
<1> QED
  BY <1>3, <1>4

(* An answer never says more of a file than the table holds at that moment,  *)
(* and nothing of a file the client may not see; and if all there is to find *)
(* is at most max_results, it says everything.                               *)
THEOREM AnswersAreTheTable == LISpec => AnswersAreTrue
<1> DEFINE True ==
      PrintTagsResults =>
        \A f \in Files, t \in Tags :
          LET held == IF Test(f, poll.query) THEN Holds(poll.query, f, t) ELSE 0
          IN /\ poll'.answer[f][t] <= held
             /\ Total(poll.query) <= MaxResults => poll'.answer[f][t] = held
<1>1. TTInv /\ PrintOK => True
  <2> SUFFICES ASSUME TTInv, PrintOK, PrintTagsResults, NEW f \in Files, NEW t \in Tags
               PROVE  LET held == IF Test(f, poll.query) THEN Holds(poll.query, f, t) ELSE 0
                      IN /\ poll'.answer[f][t] <= held
                         /\ Total(poll.query) <= MaxResults => poll'.answer[f][t] = held
    OBVIOUS
  <2> DEFINE q == poll.query
             M == poll.matches
             F == Found(q)
             Listed(S) == {r \in S : table.heap[r] = [tag |-> t, file |-> f]}
             A == {r \in M : table.heap[r] = [tag |-> t, file |-> f] /\ Test(f, q)}
  <2>1. q \in Queries /\ M \in Cut(F)
    BY DEF PrintTagsResults, PrintOK
  <2>2. poll'.answer[f][t] = Cardinality(A)
    <3>1. poll'.answer = [g \in Files |-> [u \in Tags |->
                   Cardinality({r \in poll.matches : /\ table.heap[r] = [tag |-> u, file |-> g]
                                                     /\ Test(g, poll.query)})]]
      BY DEF PrintTagsResults
    <3> QED
      BY <3>1
  <2> HIDE DEF q, M
  <2>3. IsFiniteSet(F) /\ Cardinality(F) \in Nat /\ Total(q) = Cardinality(F)
    BY <2>1, TotalIsFound
  <2>4. Holds(q, f, t) = Cardinality(Listed(F))
    BY <2>1, HeldIsCounted
  <2>5. M \subseteq F /\ (M = F \/ Cardinality(M) = MaxResults)
    BY <2>1 DEF Cut
  <2> HIDE DEF F
  <2>6. /\ IsFiniteSet(Listed(F)) /\ Cardinality(Listed(F)) \in Nat
        /\ IsFiniteSet(Listed(M)) /\ Cardinality(Listed(M)) \in Nat
        /\ Cardinality(Listed(M)) <= Cardinality(Listed(F))
    <3>1. Listed(F) \subseteq F /\ Listed(M) \subseteq Listed(F)
      BY <2>5
    <3>2. IsFiniteSet(Listed(F))
      BY <2>3, <3>1, FS_Subset
    <3> HIDE DEF Listed
    <3> QED
      BY <3>1, <3>2, FS_Subset, FS_CardinalityType
  <2>7. Total(q) <= MaxResults => M = F
    <3>1. MaxResults \in Nat
      BY TagsTableAssumption
    <3>2. Cardinality(M) <= Cardinality(F) /\ (Cardinality(F) = Cardinality(M) => F = M)
      BY <2>3, <2>5, FS_Subset
    <3> QED
      BY <2>3, <2>5, <3>1, <3>2
  <2>8. A = IF Test(f, q) THEN Listed(M) ELSE {}
    OBVIOUS
  <2>9. CASE Test(f, q)
    BY <2>2, <2>4, <2>6, <2>7, <2>8, <2>9 DEF q
  <2>10. CASE ~Test(f, q)
    <3>1. Cardinality(A) = 0
      BY <2>8, <2>10, FS_EmptySet
    <3> QED
      BY <2>2, <2>10, <3>1 DEF q
  <2> QED
    BY <2>9, <2>10
<1>2. LIInv /\ PrintOK /\ [LINext]_liVars => PrintOK'
  BY PrintStepOK
<1>3. TTInv /\ PrintOK => [True]_liVars
  BY <1>1
<1> HIDE DEF True
<1>4. LISpec => [][True]_liVars
  BY <1>2, <1>3, PrintInitOK, LocalInvariance, PTL DEF LISpec
<1> QED
  BY <1>4 DEF AnswersAreTrue, True

-----------------------------------------------------------------------------
(* The way of a content from the disk to the table.                          *)

(* The tag file names f, and says of it that it holds c and nothing else.    *)
Says(decls, f, c) ==
  /\ f \in NamedIn(decls)
  /\ \A i \in DOMAIN decls :
       decls[i].kind \in {"file", "deleted"} /\ decls[i].file = f
         => decls[i].kind = "file" /\ decls[i].counts = c

Waiting(f) == f \in events \cup Range(queue) \/ f = noticed

(* Either the content of f is on its way to the table, at one of its four    *)
(* stations, or it is there and no open tag file will replace it.            *)
Fresh(f) ==
  \/ Waiting(f)
  \/ agent.pc = "index" /\ f \in agent.files
  \/ agent.pc = "update" /\ Says(agent.made, f, disk[f])
  \/ owner = "agent" /\ Says(tagfile, f, disk[f])
  \/ /\ Content[f] = disk[f]
     /\ f \notin NamedIn(tagfile)
     /\ agent.pc = "update" => f \notin NamedIn(agent.made)

AllFresh == \A f \in Files \ stale : Fresh(f)

FreshInv == died = "no" => AllFresh

-----------------------------------------------------------------------------
(* Tag files.                                                                *)
LEMMA ConcatParts ==
  ASSUME NEW a \in Seq(Declarations), NEW b \in Seq(Declarations)
  PROVE  /\ DOMAIN (a \o b) = 1 .. Len(a) + Len(b)
         /\ \A i \in 1 .. Len(a) : (a \o b)[i] = a[i]
         /\ \A i \in 1 .. Len(b) : (a \o b)[Len(a) + i] = b[i]
<1>1. /\ a \o b \in Seq(Declarations)
      /\ Len(a) \in Nat /\ Len(b) \in Nat /\ Len(a \o b) = Len(a) + Len(b)
  BY ConcatProperties
<1>2. DOMAIN (a \o b) = 1 .. Len(a \o b)
  BY <1>1
<1> QED
  BY <1>1, <1>2, ConcatProperties

(* What the generators write says of each file what its disk content is.     *)
LEMMA SaysWritten ==
  ASSUME NEW fs \in SUBSET Files, IsFiniteSet(fs), \A f \in fs : disk[f] \in Counts,
         NEW f \in fs
  PROVE  Says(Written(fs), f, disk[f])
<1> DEFINE n == Cardinality(fs)
<1> DEFINE s == SetToSeq(fs)
<1>1. n \in Nat /\ ExistsBijection(1 .. n, fs)
  BY FS_CardinalityType
<1>2. \E z \in [1 .. n -> fs] : IsInjective(z)
  BY <1>1 DEF ExistsBijection, Bijection, Injection
<1>3. s \in [1 .. n -> fs] /\ IsInjective(s)
  BY <1>2 DEF SetToSeq
<1>4. s \in Injection(1 .. n, fs)
  BY <1>3 DEF Injection
<1>5. IsFiniteSet(1 .. n) /\ Cardinality(1 .. n) = n
  BY <1>1, FS_Interval
<1>6. s \in Surjection(1 .. n, fs)
  BY <1>4, <1>5, FS_Injection
<1>7. PICK k \in 1 .. n : s[k] = f
  BY <1>6 DEF Surjection
<1> DEFINE entry(i) == [kind |-> "file", file |-> s[i], counts |-> disk[s[i]]]
<1> DEFINE files == [i \in 1 .. n |-> entry(i)]
<1> DEFINE header == <<[kind |-> "version"], [kind |-> "header"]>>
<1>8. \A i \in 1 .. n : entry(i) \in Declarations
  BY <1>3 DEF Declarations
<1>9. files \in Seq(Declarations) /\ Len(files) = n
  BY <1>1, <1>8, IsASeq
<1>10. header \in Seq(Declarations) /\ Len(header) = 2
       /\ \A i \in 1 .. 2 : header[i].kind \notin {"file", "deleted"}
  BY DEF Declarations
<1>11. Written(fs) = header \o files
  BY DEF Written
<1>12. \A i \in 1 .. n : /\ files[i].kind = "file" /\ files[i].file = s[i]
                         /\ files[i].counts = disk[s[i]]
  OBVIOUS
<1> HIDE DEF n, s, header, files
<1> DEFINE w == header \o files
<1>13. /\ DOMAIN w = 1 .. 2 + n
       /\ \A i \in 1 .. 2 : w[i] = header[i]
       /\ \A i \in 1 .. n : w[2 + i] = files[i]
  <2>1. header \in Seq(Declarations) /\ files \in Seq(Declarations)
    BY <1>9, <1>10
  <2>2. /\ DOMAIN w = 1 .. Len(header) + Len(files)
        /\ \A i \in 1 .. Len(header) : w[i] = header[i]
        /\ \A i \in 1 .. Len(files) : w[Len(header) + i] = files[i]
    BY <2>1, ConcatParts
  <2> QED
    BY <1>9, <1>10, <2>2
<1> HIDE DEF w
<1>14. f \in NamedIn(w)
  <2>1. 2 + k \in DOMAIN w /\ w[2 + k].kind = "file" /\ w[2 + k].file = f
    BY <1>1, <1>7, <1>12, <1>13
  <2> QED
    BY <2>1 DEF NamedIn
<1>15. ASSUME NEW i \in DOMAIN w, w[i].kind \in {"file", "deleted"}, w[i].file = f
       PROVE  w[i].kind = "file" /\ w[i].counts = disk[f]
  <2>1. i \notin 1 .. 2
    BY <1>10, <1>13, <1>15
  <2>2. i - 2 \in 1 .. n /\ w[i] = files[i - 2]
    BY <1>1, <1>13, <2>1
  <2> QED
    BY <1>12, <1>15, <2>2
<1> QED
  BY <1>11, <1>14, <1>15 DEF Says, w

(* A sequence is its head and its tail.                                      *)
LEMMA HeadAndTail ==
  ASSUME NEW decls \in Seq(Declarations), decls # <<>>
  PROVE  /\ Head(decls) = decls[1] /\ 1 \in DOMAIN decls
         /\ \A i \in DOMAIN Tail(decls) :
              i + 1 \in DOMAIN decls /\ Tail(decls)[i] = decls[i + 1]
         /\ \A i \in DOMAIN decls \ {1} :
              i - 1 \in DOMAIN Tail(decls) /\ Tail(decls)[i - 1] = decls[i]
<1>1. /\ Len(decls) \in Nat /\ Len(decls) > 0 /\ DOMAIN decls = 1 .. Len(decls)
      /\ DOMAIN Tail(decls) = 1 .. Len(decls) - 1
      /\ \A i \in 1 .. Len(decls) - 1 : Tail(decls)[i] = decls[i + 1]
  BY HeadTailProperties
<1>2. ASSUME NEW i \in DOMAIN decls \ {1}
      PROVE  i - 1 \in DOMAIN Tail(decls) /\ Tail(decls)[i - 1] = decls[i]
  <2>1. i - 1 \in 1 .. Len(decls) - 1 /\ (i - 1) + 1 = i
    BY <1>1
  <2> QED
    BY <1>1, <2>1
<1> QED
  BY <1>1, <1>2

(* What a tag file says of a file is in its tail, unless its head says it.   *)
LEMMA SaysTail ==
  ASSUME NEW decls \in Seq(Declarations), decls # <<>>, NEW f, NEW c, Says(decls, f, c)
  PROVE  LET decl == Head(decls)
         IN /\ decl.kind \in {"file", "deleted"} /\ decl.file = f
                 => decl.kind = "file" /\ decl.counts = c
            /\ ~(decl.kind \in {"file", "deleted"} /\ decl.file = f)
                 => f \in NamedIn(Tail(decls))
            /\ f \in NamedIn(Tail(decls)) => Says(Tail(decls), f, c)
<1>1. /\ Head(decls) = decls[1] /\ 1 \in DOMAIN decls
      /\ \A i \in DOMAIN Tail(decls) : i + 1 \in DOMAIN decls /\ Tail(decls)[i] = decls[i + 1]
      /\ \A i \in DOMAIN decls \ {1} :
           i - 1 \in DOMAIN Tail(decls) /\ Tail(decls)[i - 1] = decls[i]
  BY HeadAndTail
<1>2. PICK i \in DOMAIN decls : decls[i].kind \in {"file", "deleted"} /\ decls[i].file = f
  BY DEF Says, NamedIn
<1>3. f \in NamedIn(Tail(decls)) \/ i = 1
  BY <1>1, <1>2 DEF NamedIn
<1>4. f \in NamedIn(Tail(decls)) => Says(Tail(decls), f, c)
  BY <1>1 DEF Says
<1>5. decls[1].kind \in {"file", "deleted"} /\ decls[1].file = f
        => decls[1].kind = "file" /\ decls[1].counts = c
  BY <1>1 DEF Says
<1> QED
  BY <1>1, <1>2, <1>3, <1>4, <1>5

(* What an opened tag file says is what was written.                         *)
LEMMA SaysOpen ==
  ASSUME NEW decls \in Seq(Declarations), Open(decls), Readable(decls), NEW f, NEW c
  PROVE  /\ Says(decls, f, c) => Says(tagfile', f, c)
         /\ f \notin NamedIn(decls) => f \notin NamedIn(tagfile')
<1>1. decls # <<>> /\ tagfile' = Tail(decls) /\ Head(decls).kind \notin {"file", "deleted"}
  BY DEF Open, Readable
<1> QED
  BY <1>1, SaysTail, NamedInTail

-----------------------------------------------------------------------------
(* What the operations on the table do to what it shows.                     *)
LEMMA ContentKept == table' = table => Content' = Content
BY ContentIs, ContentIsNext

(* A file declaration shows its counts.                                      *)
LEMMA ParseFileShows ==
  ASSUME TTInv, NEW f \in Files, NEW counts \in Counts, ParseFileDeclaration(f, counts)
  PROVE  Content'[f] = counts /\ \A e \in Files \ {f} : Content'[e] = Content[e]
<1>1. fileindex \in BOOLEAN /\ TableOK(table, fileindex)
  BY DEF TTInv
<1>2. Parsed(UnloadFiles(Known(table, f), {f}), f, counts, table')
  BY DEF ParseFileDeclaration
<1>3. /\ ContentOf(table')[f] = counts
      /\ ContentOf(table') = [ContentOf(table) EXCEPT ![f] = counts]
  BY <1>1, <1>2, ParsedContent
<1>4. DOMAIN ContentOf(table) = Files
  BY DEF ContentOf
<1> QED
  BY <1>3, <1>4, ContentIs, ContentIsNext

(* A deleted declaration shows nothing of its file, and the rest as before.  *)
LEMMA ParseDeletedShows ==
  ASSUME TTInv, NEW f \in Files, ParseDeletedDeclaration(f)
  PROVE  \A e \in Files \ {f} : Content'[e] = Content[e]
<1>1. fileindex \in BOOLEAN /\ TableOK(table, fileindex)
  BY DEF TTInv
<1>2. /\ TableOK(Known(table, f), fileindex)
      /\ ContentOf(Known(table, f)) = ContentOf(table)
  BY <1>1, KnownOK, KnownContent
<1>3. ContentOf(UnloadFiles(Known(table, f), {f}))
        = [e \in Files |-> IF e \in {f} THEN Absent ELSE ContentOf(table)[e]]
  BY <1>1, <1>2, UnloadContent
<1>4. table' = UnloadFiles(Known(table, f), {f})
  BY DEF ParseDeletedDeclaration, Unload
<1> QED
  BY <1>3, <1>4, ContentIs, ContentIsNext

(* An unload shows less only of the files it unloads.                        *)
LEMMA UnloadInDirShows ==
  ASSUME TTInv, NEW d, UnloadFilesInDir(d)
  PROVE  \A e \in Files \ FilesIn(d) : Content'[e] = Content[e]
<1>1. fileindex \in BOOLEAN /\ TableOK(table, fileindex)
  BY DEF TTInv
<1>2. Matching(d) \in SUBSET Files /\ Matching(d) \subseteq FilesIn(d)
  BY <1>1 DEF Matching, FilesIn, TableOK, TableType
<1>3. ContentOf(UnloadFiles(table, Matching(d)))
        = [e \in Files |-> IF e \in Matching(d) THEN Absent ELSE ContentOf(table)[e]]
  BY <1>1, <1>2, UnloadContent
<1>4. table' = UnloadFiles(table, Matching(d))
  BY DEF UnloadFilesInDir, Unload
<1> QED
  BY <1>2, <1>3, <1>4, ContentIs, ContentIsNext

-----------------------------------------------------------------------------
(* The steps that leave the table, the tag file and the agent alone.         *)
LEMMA ChangeFresh ==
  ASSUME LIInv, AllFresh, NEW f \in Files, NEW content \in Contents \cup {Absent},
         Change(f, content)
  PROVE  AllFresh'
<1>1. table' = table /\ Content' = Content
  BY ContentKept DEF Change, vars
<1>2. disk' = [disk EXCEPT ![f] = content] /\ disk \in [Files -> Contents \cup {Absent}]
  BY DEF Change, LIInv, Types
<1>3. \A e \in Files \ {f} : disk'[e] = disk[e]
  BY <1>2
<1>4. f \in events' \/ f \in stale'
  BY DEF Change
<1>5. events \subseteq events' /\ stale \subseteq stale'
  BY DEF Change
<1> QED
  BY <1>1, <1>3, <1>4, <1>5 DEF AllFresh, Fresh, Waiting, Change, lockVars

(* An event that is read is noticed.                                         *)
LEMMA DoIndexingFresh ==
  ASSUME AllFresh, NEW f \in Files, DoIndexing(f)
  PROVE  AllFresh'
<1>1. Content' = Content
  BY ContentKept DEF DoIndexing, vars
<1>2. \A e \in Files : Waiting(e) => Waiting(e)'
  BY LocalIndexAssumption DEF Waiting, DoIndexing
<1> QED
  BY <1>1, <1>2 DEF AllFresh, Fresh, DoIndexing, diskVars, lockVars, histVars

(* A name that was put is in the queue, whatever was known of its file.      *)
LEMMA PutFresh ==
  ASSUME LIInv, AllFresh, NEW f \in Files, Put(f), Content' = Content,
         \A e \in events : e \in events', noticed' = noticed \/ noticed = f,
         UNCHANGED <<disk, lockVars, agent>>
  PROVE  AllFresh'
<1>1. queue \in Seq(Files) /\ queue' = Append(queue, f) /\ stale' = stale \ {f}
  BY DEF LIInv, Types, Put
<1>2. Range(queue') = Range(queue) \cup {f}
  BY <1>1, RangeOfAppend
<1>3. \A e : Waiting(e) => Waiting(e)'
  BY <1>2 DEF Waiting
<1>4. Waiting(f)'
  BY <1>2 DEF Waiting
<1> QED
  BY <1>1, <1>3, <1>4 DEF AllFresh, Fresh, lockVars

(* Events that go with their watches leave stale files.                      *)
LEMMA RemoveDirectoryFresh ==
  ASSUME AllFresh, NEW d \in Dirs, RemoveDirectoryRecursive(d)
  PROVE  AllFresh'
<1>1. Content' = Content
  BY ContentKept DEF RemoveDirectoryRecursive, vars
<1>2. \A f \in Files \ stale' : Waiting(f) => Waiting(f)'
  BY DEF Waiting, RemoveDirectoryRecursive
<1>3. stale \subseteq stale'
  BY DEF RemoveDirectoryRecursive
<1> QED
  BY <1>1, <1>2, <1>3 DEF AllFresh, Fresh, RemoveDirectoryRecursive, diskVars, lockVars

(* Unloaded files are stale.                                                 *)
LEMMA UnloadRemovedFresh ==
  ASSUME TTInv, AllFresh, UnloadRemoved
  PROVE  AllFresh'
<1>1. \A f \in Files \ stale' : f \notin stale /\ f \notin FilesIn(worker.dir)
  BY DEF UnloadRemoved
<1>2. \A f \in Files \ stale' : Content'[f] = Content[f]
  BY <1>1, UnloadInDirShows DEF UnloadRemoved
<1> QED
  BY <1>1, <1>2 DEF AllFresh, Fresh, Waiting, UnloadRemoved, diskVars, watchVars, lockVars

-----------------------------------------------------------------------------
(* From station to station.                                                  *)
LEMMA GetRequestsFresh ==
  ASSUME AllFresh, GetRequests
  PROVE  AllFresh'
<1>1. Content' = Content
  BY ContentKept DEF GetRequests, vars
<1>2. /\ agent.pc = "get" /\ agent' = [pc |-> "index", files |-> Range(queue), made |-> <<>>]
  BY DEF GetRequests
<1>3. agent'.pc = "index" /\ agent'.files = Range(queue)
  BY <1>2
<1> QED
  BY <1>1, <1>2, <1>3 DEF AllFresh, Fresh, Waiting, GetRequests, diskVars, watchVars,
                          lockVars, histVars

(* The generators read the disk, now: the tag file says what is there.       *)
LEMMA GenerateFresh ==
  ASSUME LIInv, AllFresh, Generate
  PROVE  AllFresh'
<1> DEFINE present == {f \in agent.files : disk[f] # Absent}
<1>1. /\ agent.pc = "index" /\ agent.files \in SUBSET Files /\ IsFiniteSet(agent.files)
      /\ agent' = [agent EXCEPT !.pc = "update", !.made = Written(present)]
      /\ stale' = stale \cup (agent.files \ present)
  BY DEF LIInv, Types, Generate
<1>2. present \in SUBSET Files /\ IsFiniteSet(present)
  BY <1>1, FS_Subset
<1>3. \A f \in present : disk[f] \in Counts
  BY <1>1, LocalIndexAssumption DEF LIInv, Types
<1>4. \A f \in present : Says(Written(present), f, disk[f])
  BY <1>2, <1>3, SaysWritten
<1>5. NamedIn(Written(present)) \subseteq present
  BY <1>2, <1>3, WrittenNames
<1>6. present \subseteq agent.files
  OBVIOUS
<1> HIDE DEF present
<1>7. agent'.pc = "update" /\ agent'.made = Written(present)
  BY <1>1 DEF LIInv, Types
<1>8. Content' = Content
  BY ContentKept DEF Generate, vars
<1>9. ASSUME NEW f \in Files \ stale' PROVE Fresh(f)'
  <2>1. Fresh(f)
    BY <1>1, <1>9 DEF AllFresh
  <2>2. CASE f \in agent.files
    <3>1. f \in present
      BY <1>1, <1>9, <2>2
    <3> QED
      BY <1>4, <1>7, <3>1 DEF Fresh, Generate, diskVars
  <2>3. CASE f \notin agent.files
    BY <1>1, <1>5, <1>6, <1>7, <1>8, <2>1, <2>3
    DEF Fresh, Waiting, Generate, diskVars, watchVars, lockVars
  <2> QED
    BY <2>2, <2>3
<1> QED
  BY <1>9 DEF AllFresh

(* Files of a batch that failed are stale.                                   *)
LEMMA FailToGenerateFresh ==
  ASSUME LIInv, AllFresh, NEW how, FailToGenerate(how)
  PROVE  AllFresh'
<1>1. agent.pc = "index" /\ stale' = stale \cup agent.files
  BY DEF FailToGenerate
<1>2. Content' = Content
  BY ContentKept DEF FailToGenerate, vars
<1>3. NamedIn(agent'.made) = {}
  <2>1. CASE how = "status"
    BY <2>1, NamedInEmpty DEF FailToGenerate, Idle
  <2>2. CASE how # "status"
    BY <2>2, NamedInEmpty DEF FailToGenerate, LIInv, Types
  <2> QED
    BY <2>1, <2>2
<1> QED
  BY <1>1, <1>2, <1>3 DEF AllFresh, Fresh, Waiting, FailToGenerate, diskVars, watchVars,
                          lockVars

(* The agent opens the tag file it made.                                     *)
LEMMA UpdateFresh ==
  ASSUME LIInv, AllFresh, Update, died' = "no"
  PROVE  AllFresh'
<1>1. /\ agent.pc = "update" /\ owner = Nobody /\ owner' = "agent"
      /\ agent.made \in Seq(Declarations) /\ Open(agent.made) /\ Readable(agent.made)
      /\ agent' = [agent EXCEPT !.pc = "load"]
      /\ table' = table
  BY DEF LIInv, Types, Update, Lock, UpdateTagFile, LoadTagFile
<1>2. agent'.pc = "load"
  BY <1>1 DEF LIInv, Types
<1>3. Content' = Content
  BY <1>1, ContentKept
<1>4. \A f, c : /\ Says(agent.made, f, c) => Says(tagfile', f, c)
                /\ f \notin NamedIn(agent.made) => f \notin NamedIn(tagfile')
  BY <1>1, SaysOpen
<1>5. owner # "agent"
  BY <1>1, LocalIndexAssumption DEF Threads
<1> QED
  BY <1>1, <1>2, <1>3, <1>4, <1>5 DEF AllFresh, Fresh, Waiting, Update, diskVars, watchVars,
                                      histVars

(* What the open tag file said is in the table once it is read.              *)
LEMMA ReadDeclarationFresh ==
  ASSUME LIInv, TTInv, AllFresh, NEW t \in Threads, ReadDeclaration(t)
  PROVE  AllFresh'
<1> DEFINE decl == Head(tagfile)
<1> DEFINE About(f) == decl.kind \in {"file", "deleted"} /\ decl.file = f
<1>1. /\ owner = t /\ owner' = t /\ tagfile # <<>> /\ tagfile' = Tail(tagfile)
      /\ tagfile \in Seq(Declarations)
  BY DEF LIInv, Types, ReadDeclaration
<1>2. /\ decl \in Declarations
      /\ NamedIn(tagfile') \subseteq NamedIn(tagfile)
      /\ decl.kind \in {"file", "deleted"} => decl.file \in NamedIn(tagfile)
  BY <1>1, NamedInTail
<1>3. /\ \A f \in Files : ~About(f) => Content'[f] = Content[f]
      /\ \A f \in Files : About(f) /\ decl.kind = "file" => Content'[f] = decl.counts
  <2>1. CASE decl.kind = "file" /\ ParseFileDeclaration(decl.file, decl.counts)
    BY <1>2, <2>1, NamedDeclaration, ParseFileShows
  <2>2. CASE decl.kind = "deleted" /\ ParseDeletedDeclaration(decl.file)
    BY <1>2, <2>2, NamedDeclaration, ParseDeletedShows
  <2>3. CASE /\ decl.kind \notin {"file", "deleted"}
             /\ ParseHeaderDeclaration(FALSE) \/ ParseHeaderDeclaration(TRUE)
    BY <2>3, ContentKept DEF ParseHeaderDeclaration
  <2> QED
    BY <2>1, <2>2, <2>3 DEF ReadDeclaration
<1>4. ASSUME NEW f, NEW c, Says(tagfile, f, c)
      PROVE  /\ About(f) => decl.kind = "file" /\ decl.counts = c
             /\ ~About(f) => f \in NamedIn(tagfile')
             /\ f \in NamedIn(tagfile') => Says(tagfile', f, c)
  BY <1>1, <1>4, SaysTail
<1>5. \A f : About(f) => f \in NamedIn(tagfile)
  BY <1>2
<1> HIDE DEF decl, About
<1>6. ASSUME NEW f \in Files \ stale PROVE Fresh(f)'
  <2>1. Fresh(f)
    BY DEF AllFresh
  <2>2. CASE \/ Waiting(f)
             \/ agent.pc = "index" /\ f \in agent.files
             \/ agent.pc = "update" /\ Says(agent.made, f, disk[f])
    BY <2>2 DEF Fresh, Waiting, ReadDeclaration, diskVars, watchVars
  <2>3. CASE owner = "agent" /\ Says(tagfile, f, disk[f])
    <3>1. CASE f \in NamedIn(tagfile')
      BY <1>1, <1>4, <2>3, <3>1 DEF Fresh, ReadDeclaration, diskVars
    <3>2. CASE f \notin NamedIn(tagfile')
      <4>1. Content'[f] = disk[f]
        BY <1>3, <1>4, <2>3, <3>2 DEF About
      <4>2. agent'.pc = "load"
        BY <2>3 DEF LIInv, TagFileOwned, ReadDeclaration
      <4> QED
        BY <3>2, <4>1, <4>2 DEF Fresh, ReadDeclaration, diskVars
    <3> QED
      BY <3>1, <3>2
  <2>4. CASE /\ Content[f] = disk[f]
             /\ f \notin NamedIn(tagfile)
             /\ agent.pc = "update" => f \notin NamedIn(agent.made)
    <3>1. Content'[f] = Content[f] /\ f \notin NamedIn(tagfile')
      BY <1>2, <1>3, <1>5, <2>4
    <3> QED
      BY <2>4, <3>1 DEF Fresh, ReadDeclaration, diskVars
  <2> QED
    BY <2>1, <2>2, <2>3, <2>4 DEF Fresh
<1> QED
  BY <1>6 DEF AllFresh, ReadDeclaration, histVars

(* A tag file that is closed has nothing left to say.                        *)
LEMMA CloseTagFileFresh ==
  ASSUME LIInv, AllFresh, NEW t, CloseTagFile(t),
         agent' = agent \/ (t = "agent" /\ agent' = Idle)
  PROVE  AllFresh'
<1>1. tagfile = <<>> /\ NamedIn(tagfile) = {} /\ tagfile' = tagfile /\ Content' = Content
  BY NamedInEmpty, ContentKept DEF CloseTagFile, EndOfTagFile
<1>2. \A f : ~Says(tagfile, f, disk[f])
  BY <1>1 DEF Says
<1>3. ASSUME t = "agent", agent' = Idle
      PROVE  agent.pc = "load" /\ agent'.pc = "get"
  BY <1>3 DEF LIInv, TagFileOwned, CloseTagFile, Unlock, Idle
<1>4. ASSUME NEW f \in Files \ stale PROVE Fresh(f)'
  <2>1. Fresh(f)
    BY DEF AllFresh
  <2>2. CASE agent' = agent
    BY <1>1, <1>2, <2>1, <2>2 DEF Fresh, Waiting, CloseTagFile, diskVars, watchVars
  <2>3. CASE t = "agent" /\ agent' = Idle
    BY <1>1, <1>2, <1>3, <2>1, <2>3 DEF Fresh, Waiting, CloseTagFile, diskVars, watchVars
  <2> QED
    BY <2>2, <2>3
<1> QED
  BY <1>4 DEF AllFresh, CloseTagFile, histVars

(* A client's tag file makes the files stale that it names, or all.          *)
LEMMA LoadRequestedFresh ==
  ASSUME LIInv, AllFresh, NEW reload \in BOOLEAN, NEW decls \in TagFiles,
         LoadRequested(reload, decls)
  PROVE  AllFresh'
<1>1. CASE reload
  BY <1>1 DEF LoadRequested, AllFresh
<1>2. CASE ~reload
  <2>1. /\ owner = Nobody /\ Open(decls) /\ decls \in Seq(Declarations)
        /\ stale' = stale \cup NamedIn(decls)
    BY <1>2, LocalIndexAssumption DEF LoadRequested, Lock
  <2>2. NamedIn(tagfile') \subseteq NamedIn(decls)
    BY <2>1, OpenNames
  <2>3. Content' = Content
    BY <1>2, ContentKept DEF LoadRequested, UpdateTagFile
  <2>4. owner # "agent"
    BY <2>1, LocalIndexAssumption DEF Threads
  <2> QED
    BY <2>1, <2>2, <2>3, <2>4 DEF AllFresh, Fresh, Waiting, LoadRequested, diskVars, watchVars
<1> QED
  BY <1>1, <1>2

(* Every step keeps the invariant.                                           *)
LEMMA FreshStep ==
  ASSUME LIInv, TTInv, FreshInv, [LINext]_liVars
  PROVE  FreshInv'
<1> SUFFICES ASSUME died' = "no" PROVE AllFresh'
  BY DEF FreshInv
<1>1. CASE UNCHANGED liVars
  BY <1>1, ContentKept DEF FreshInv, AllFresh, Fresh, Waiting, liVars, vars, diskVars,
                           watchVars, lockVars, histVars
<1>2. ASSUME died = "no", AllFresh, Watching PROVE AllFresh'
  <2>1. ASSUME PutNoticed PROVE AllFresh'
    <3>1. /\ noticed \in Files /\ Put(noticed) /\ Content' = Content
          /\ UNCHANGED <<disk, lockVars, agent, events>>
      BY <2>1, ContentKept DEF PutNoticed, LIInv, Types, vars, diskVars
    <3> QED
      BY <1>2, <3>1, PutFresh
  <2> QED
    BY <1>2, <2>1, ChangeFresh, DoIndexingFresh DEF Watching
<1>3. ASSUME died = "no", AllFresh, Agent PROVE AllFresh'
  <2>1. ASSUME DoneRequests PROVE AllFresh'
    BY <1>3, <2>1, CloseTagFileFresh DEF DoneRequests
  <2> QED
    BY <1>3, <2>1, GetRequestsFresh, GenerateFresh, FailToGenerateFresh, UpdateFresh,
       ReadDeclarationFresh DEF Agent, Threads
<1>4. ASSUME died = "no", AllFresh, Work PROVE AllFresh'
  <2>1. ASSUME NEW d \in Dirs, AddDirectoryRecursive(d) PROVE AllFresh'
    BY <1>4, <2>1, ContentKept DEF AddDirectoryRecursive, AllFresh, Fresh, Waiting, vars,
                                   diskVars, watchVars, lockVars, histVars
  <2>2. ASSUME AddDirectory PROVE AllFresh'
    BY <1>4, <2>2, ContentKept DEF AddDirectory, AllFresh, Fresh, Waiting, vars, diskVars,
                                   lockVars, histVars
  <2>3. ASSUME NEW f \in Files, HandleImport(f) PROVE AllFresh'
    <3>1. /\ Put(f) /\ Content' = Content
          /\ UNCHANGED <<disk, lockVars, agent, events, noticed>>
      BY <2>3, ContentKept DEF HandleImport, vars, diskVars, watchVars
    <3> QED
      BY <1>4, <3>1, PutFresh
  <2> QED
    BY <1>4, <2>1, <2>2, <2>3, RemoveDirectoryFresh, UnloadRemovedFresh DEF Work
<1>5. ASSUME died = "no", AllFresh, Poll PROVE AllFresh'
  <2>1. ASSUME NEW q, Find(q) PROVE AllFresh'
    <3>1. owner = Nobody /\ tagfile' = tagfile /\ Content' = Content
      BY <2>1, ContentKept DEF Find, Lock, vars
    <3>2. owner # "agent"
      BY <3>1, LocalIndexAssumption DEF Threads
    <3> QED
      BY <1>5, <2>1, <3>1, <3>2 DEF Find, AllFresh, Fresh, Waiting, diskVars, watchVars, histVars
  <2>2. ASSUME PrintTagsResults PROVE AllFresh'
    <3>1. owner = "poll" /\ Content' = Content
      BY <2>2, ContentKept DEF PrintTagsResults, Unlock, vars
    <3> QED
      BY <1>5, <2>2, <3>1 DEF PrintTagsResults, AllFresh, Fresh, Waiting, diskVars, watchVars,
                              histVars
  <2>3. ASSUME LoadDone PROVE AllFresh'
    BY <1>5, <2>3, CloseTagFileFresh DEF LoadDone
  <2> QED
    BY <1>5, <2>1, <2>2, <2>3, LoadRequestedFresh, ReadDeclarationFresh DEF Poll, Threads
<1> QED
  BY <1>1, <1>2, <1>3, <1>4, <1>5 DEF LINext, Rest, FreshInv

(* Nothing is on disk at first that is not stale.                            *)
LEMMA FreshInit == LIInit => FreshInv
BY DEF LIInit, FreshInv, AllFresh

(* At rest the table shows every file as it is on disk, but those that were  *)
(* changed while nobody watched, were not indexed (gone or failed), were     *)
(* unloaded, or were loaded by a client: between the moment a name is put and*)
(* the moment its declaration is read no interleaving of the watcher, the    *)
(* worker, the agent and the clients loses it or lets an older one win.      *)
THEOREM TableIsFreshAtRest == LISpec => []FreshAtRest
<1>1. LIInv /\ TTInv /\ FreshInv => FreshAtRest
  <2> SUFFICES ASSUME LIInv, AllFresh, AtRest, NEW f \in Files \ stale
               PROVE  Content[f] = disk[f]
    BY DEF FreshAtRest, FreshInv
  <2>1. f # noticed /\ f \notin events /\ f \notin Range(queue)
    BY LocalIndexAssumption DEF AtRest, Range
  <2>2. owner # "agent"
    BY DEF AtRest, LIInv, TagFileOwned
  <2> QED
    BY <2>1, <2>2 DEF AllFresh, Fresh, Waiting, AtRest
<1>2. LIInit => FreshInv
  BY FreshInit
<1>3. LIInv /\ TTInv /\ FreshInv /\ [LINext]_liVars => FreshInv'
  BY FreshStep
<1> QED
  BY <1>1, <1>2, <1>3, LocalInvariance, PTL DEF LISpec
=============================================================================
