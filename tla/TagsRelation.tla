---------------------------- MODULE TagsRelation ----------------------------
(* What the tags table promises, whatever indices it keeps: for every loaded *)
(* file the tags in it, each as often as the file declares it.  A load       *)
(* replaces or deletes the files it names and no other.                      *)
EXTENDS Naturals

CONSTANTS Files, Tags,
          Named,     \* Named[d]: the files an unload of d applies to
          MaxItems,  \* a declaration has at most so many items
          Absent     \* the content of a file that is not loaded

VARIABLE content

Empty == [f \in Files |-> Absent]

RelationInit == content = Empty

Clear == content' = Empty

(* How often each tag now occurs in f is what one declaration says.          *)
Replace(f) ==
  /\ content'[f] \in [Tags -> 0 .. MaxItems]
  /\ content' = [content EXCEPT ![f] = content'[f]]

Drop(fs) == content' = [f \in Files |-> IF f \in fs THEN Absent ELSE content[f]]

RelationNext ==
  \/ Clear
  \/ \E f \in Files : Replace(f) \/ Drop({f})
  \/ \E d \in DOMAIN Named : Drop(Named[d])

RelationSpec == RelationInit /\ [][RelationNext]_content
=============================================================================
