----------------------------- MODULE JsonLists -----------------------------
(***************************************************************************)
(* What cJSON promises its user, without pointers: an item that is live    *)
(* has a list of items; an operation changes the lists that it speaks of,  *)
(* in the way its name says, and frees the items it is told to, no other.  *)
(***************************************************************************)
EXTENDS Naturals, Sequences, SequencesExt, TLC

CONSTANTS
  JsonIds,        \* the items there may be
  JsonNames,      \* names of items in objects
  JsonValues      \* values that can be made from nothing

VARIABLE tree     \* of each live item: type, ref, value, name and list

(* The items that go with item i: those of its list, and so on, unless it  *)
(* only refers to them.                                                    *)
RECURSIVE Below(_, _)
Below(t, i) ==
  {i} \cup IF t[i].ref THEN {}
           ELSE UNION { Below(t, j) : j \in Range(t[i].list) }

(* What item i means.                                                      *)
RECURSIVE Meaning(_, _)
Meaning(t, i) ==
  [type |-> t[i].type, value |-> t[i].value,
   kids |-> [k \in DOMAIN t[i].list |->
               LET kid == t[i].list[k]
               IN  [name |-> IF t[i].type = "object" THEN t[kid].name ELSE <<>>,
                    value |-> Meaning(t, kid)]]]

Live == DOMAIN tree

(* When the items of gone are freed, item i comes with all of its value,   *)
(* one of values.                                                          *)
MakeAfter(gone, i, values) ==
  \E kept \in { Live \ gone }, after \in { tree' } :
      /\ i \in DOMAIN after \ kept
      /\ \A j \in kept : j \in DOMAIN after /\ after[j] = tree[j]
      /\ Below(after, i) = DOMAIN after \ kept
      /\ \A j \in Below(after, i) : ~after[j].ref
      /\ Meaning(after, i) \in values

Make(i)     == MakeAfter({}, i, JsonValues)
Renew(i, j) == MakeAfter(Below(tree, i), j, { Meaning(tree, i) })

Add(i, j, name) ==
  tree' = [tree EXCEPT ![i].list = Append(@, j), ![j].name = name]

AddReference(i, j, ref, name) ==
  tree' = (ref :> [tree[j] EXCEPT !.ref = TRUE, !.name = name])
            @@ [tree EXCEPT ![i].list = Append(@, ref)]

Detach(i, k) ==
  tree' = [tree EXCEPT ![i].list = RemoveAt(@, k)]

Delete(i) ==
  tree' = [j \in Live \ Below(tree, i) |-> tree[j]]

DeleteItem(i, k) ==
  tree' = [j \in Live \ Below(tree, tree[i].list[k]) |->
             IF j = i THEN [tree[i] EXCEPT !.list = RemoveAt(@, k)]
             ELSE tree[j]]

Replace(i, k, new) ==
  \E name \in { tree[new].name, tree[tree[i].list[k]].name } :
    tree' = [j \in Live \ Below(tree, tree[i].list[k]) |->
               CASE j = i   -> [tree[i] EXCEPT !.list[k] = new]
                 [] j = new -> [tree[new] EXCEPT !.name = name]
                 [] OTHER   -> tree[j]]

ListsInit == tree = <<>>

ListsNext ==
  \/ \E i \in JsonIds : Make(i)
  \/ \E i \in Live :
       \/ Delete(i)
       \/ \E k \in DOMAIN tree[i].list : Detach(i, k) \/ DeleteItem(i, k)
       \/ \E j \in JsonIds : Renew(i, j)
       \/ \E j \in Live :
            \/ \E name \in JsonNames \cup { tree[j].name } : Add(i, j, name)
            \/ \E k \in DOMAIN tree[i].list : Replace(i, k, j)
       \/ \E j \in Live, ref \in JsonIds \ Live :
            \E name \in JsonNames \cup { <<>> } : AddReference(i, j, ref, name)

ListsSpec == ListsInit /\ [][ListsNext]_tree

============================================================================
