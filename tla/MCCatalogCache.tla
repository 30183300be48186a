-------------------------- MODULE MCCatalogCache --------------------------
(* Instances of CatalogCache for TLC.  Entries of different lists never
   influence each other, so one list is asked for in each behaviour, and one
   kind of write is made, more than once. *)
EXTENDS CatalogCache, TLC

EachList == {{p} : p \in Paths}
EachWrite == {{w} : w \in Writes}
TermWrites == {{w \in Writes : w.path = "lessons/"}}
TermLists == {{"semesters_all"}}
HandlerSymmetry == Permutations(Handlers)
===========================================================================
