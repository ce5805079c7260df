------------------------------- MODULE Json --------------------------------
(***************************************************************************)
(* cJSON (src/netutils/json): items in the heap, linked into lists that    *)
(* the library edits in place, and their text, printed and parsed.         *)
(*                                                                         *)
(* Characters are strings; a control character without a letter of its own *)
(* is its four digits, which is what follows \u in a text.  A number is    *)
(* one element of a text, and an int.  White space is left out, and so is  *)
(* memory that runs out, but where the parser looks for it.                *)
(***************************************************************************)
EXTENDS Naturals, Sequences, SequencesExt, FiniteSetsExt, TLC

CONSTANTS
  NumItems,       \* bound on the items in the heap
  JsonNames,      \* names of items in objects
  JsonBasics,     \* type and value of the items that are created
  JsonArrays,     \* numbers an array is created from
  JsonTexts,      \* texts that are parsed
  JsonValues      \* the values that creating and parsing can make

VARIABLE jsonHeap \* the items

Items == 1..NumItems
Nil == 0
NoName == <<>>
NoText == <<"freed">>

(* An item has its number in it, but points to its string: valuestring is  *)
(* the item that the string was allocated for, which keeps it as its text. *)
(* The name is the item's own.                                             *)
Item(type) == [type |-> type, ref |-> FALSE, value |-> <<>>, name |-> NoName,
               child |-> Nil, next |-> Nil, prev |-> Nil,
               valuestring |-> Nil, text |-> NoText]
Free == Item("free")

JsonInit == jsonHeap = [i \in Items |-> Free]

InUse(h) == { i \in Items : h[i] # Free }

(* What an item shows, be it its own or that of the item referred to.      *)
Shows(h, i) ==
  IF h[i].valuestring = Nil THEN h[i].value ELSE h[h[i].valuestring].text

SetString(h, i, string) ==
  [h EXCEPT ![i].type = "string", ![i].valuestring = i, ![i].text = string]

FreeString(h, string) == IF string = Nil THEN h ELSE [h EXCEPT ![string].text = NoText]

----------------------------------------------------------------------------
(* Lists.                                                                  *)
SetNext(h, i, next) == IF i = Nil THEN h ELSE [h EXCEPT ![i].next = next]
SetPrev(h, i, prev) == IF i = Nil THEN h ELSE [h EXCEPT ![i].prev = prev]

(* The items from c on; a list that has become a ring is cut.              *)
RECURSIVE From(_, _, _)
From(h, c, most) ==
  IF c = Nil \/ most = 0 THEN <<>>
  ELSE <<c>> \o From(h, h[c].next, most - 1)

List(h, i) == From(h, h[i].child, NumItems + 1)

(* cJSON_New_Item: the type is 0 until it is set.                          *)
NewItem(h) ==
  LET free == Items \ InUse(h) IN IF free = {} THEN Nil ELSE Min(free)

(* cJSON_AddItemToArray, with suffix_object.                               *)
AddItem(h, a, item) ==
  LET list == List(h, a)
  IN  IF list = <<>> THEN [h EXCEPT ![a].child = item]
      ELSE SetPrev(SetNext(h, Last(list), item), item, Last(list))

(* cJSON_DetachItemFromArray; a mutant lets the next item keep its prev.   *)
DetachForward(h, a, c) ==
  LET past == SetNext(h, h[c].prev, h[c].next)
      head == IF c = h[a].child THEN [past EXCEPT ![a].child = h[c].next]
              ELSE past
  IN  SetNext(SetPrev(head, c, Nil), c, Nil)

DetachItem(h, a, c) ==
  LET past == SetPrev(SetNext(h, h[c].prev, h[c].next), h[c].next, h[c].prev)
      head == IF c = h[a].child THEN [past EXCEPT ![a].child = h[c].next]
              ELSE past
  IN  SetNext(SetPrev(head, c, Nil), c, Nil)

(* cJSON_Delete: c, what follows it, what is below them and their strings. *)
(* A reference owns neither.  A mutant frees its string all the same.      *)
RECURSIVE DeleteShared(_, _)
DeleteShared(h, c) ==
  IF c = Nil THEN h
  ELSE LET below == IF h[c].ref THEN h ELSE DeleteShared(h, h[c].child)
       IN  DeleteShared([FreeString(below, h[c].valuestring) EXCEPT ![c] = Free],
                        h[c].next)

RECURSIVE DeleteItems(_, _)
DeleteItems(h, c) ==
  IF c = Nil THEN h
  ELSE LET below == IF h[c].ref THEN h
                    ELSE FreeString(DeleteItems(h, h[c].child), h[c].valuestring)
       IN  DeleteItems([below EXCEPT ![c] = Free], h[c].next)

(* cJSON_ReplaceItemInArray.                                               *)
ReplaceItem(h, a, c, new) ==
  LET taken == SetPrev(SetNext(h, new, h[c].next), new, h[c].prev)
      back == SetPrev(taken, h[c].next, new)
      front == IF c = h[a].child THEN [back EXCEPT ![a].child = new]
               ELSE SetNext(back, h[c].prev, new)
  IN  DeleteItems(SetNext(SetPrev(front, c, Nil), c, Nil), c)

----------------------------------------------------------------------------
(* Text.  print_string_ptr: characters that have a letter after a          *)
(* backslash, and those that have a code.                                  *)
Closing == "[" :> "]" @@ "{" :> "}"
Opened  == "[" :> "array" @@ "{" :> "object"
Letter == [BS |-> "b", FF |-> "f", LF |-> "n", CR |-> "r", TAB |-> "t"]
Codes  == {"0001"}
Numbers == {"7"}
Quote  == "\""
Escape == "\\"

PrintChar(c) ==
  CASE c \in {Quote, Escape} -> <<Escape, c>>
    [] c \in DOMAIN Letter   -> <<Escape, Letter[c]>>
    [] c \in Codes           -> <<Escape, "u", c>>
    [] OTHER                 -> <<c>>

PrintString(s) ==
  <<Quote>> \o FlattenSeq([k \in DOMAIN s |-> PrintChar(s[k])]) \o <<Quote>>

(* print_array and print_object put commas between their entries.          *)
Commas(entries) ==
  FlattenSeq([k \in DOMAIN entries |->
                IF k = 1 THEN entries[k] ELSE <<",">> \o entries[k]])

RECURSIVE PrintValue(_, _)
PrintValue(h, i) ==
  LET kids == List(h, i)
      values == [k \in DOMAIN kids |-> PrintValue(h, kids[k])]
      pairs == [k \in DOMAIN kids |->
                  PrintString(h[kids[k]].name) \o <<":">> \o values[k]]
  IN  CASE h[i].type = "string" -> PrintString(Shows(h, i))
        [] h[i].type = "number" -> h[i].value
        [] h[i].type = "array"  -> <<"[">> \o Commas(values) \o <<"]">>
        [] h[i].type = "object" -> <<"{">> \o Commas(pairs) \o <<"}">>
        [] OTHER                -> <<h[i].type>>

(* parse_string, after its quote: a string also ends with its text.        *)
Unescaped(c) ==
  IF c \in Range(Letter) THEN CHOOSE d \in DOMAIN Letter : Letter[d] = c ELSE c

RECURSIVE Unescape(_)
Unescape(text) ==
  LET Put(chars, after) ==
        LET more == Unescape(SubSeq(text, after + 1, Len(text)))
        IN  [more EXCEPT !.string = chars \o @]
  IN  CASE text = <<>>            -> [string |-> <<>>, rest |-> <<>>]
        [] Head(text) = Quote     -> [string |-> <<>>, rest |-> Tail(text)]
        [] Head(text) \notin {Quote, Escape} -> Put(<<Head(text)>>, 1)
        [] OTHER ->
             IF text[2] # "u" THEN Put(<<Unescaped(text[2])>>, 2)
             ELSE Put(IF text[3] = "0000" THEN <<>> ELSE <<text[3]>>, 3)

(* What the parser returns: the heap, what is left of the text, and        *)
(* whether it has succeeded.                                               *)
Parsed(h, rest) == [heap |-> h, rest |-> rest, ok |-> TRUE]
Failed(h)       == [heap |-> h, rest |-> <<>>, ok |-> FALSE]
Starts(text, c) == text # <<>> /\ Head(text) = c

(* parse_string, into an item's value or, then moved there, into its name. *)
ParseString(h, i, text, isName) ==
  IF ~Starts(text, Quote) THEN Failed(h)
  ELSE LET s == Unescape(Tail(text))
       IN  Parsed(IF isName THEN [h EXCEPT ![i].name = s.string,
                                           ![i].type = "string"]
                  ELSE SetString(h, i, s.string),
                  s.rest)

(* parse_value; parse_array and parse_object, whose entries are parsed one *)
(* by one, each into an item that is linked behind the one before.         *)
RECURSIVE ParseValue(_, _, _), ParseEntries(_, _, _, _)
ParseValue(h, i, text) ==
  CASE text = <<>> -> Failed(h)
    [] Starts(text, Quote) -> ParseString(h, i, text, FALSE)
    [] \E c \in {"null", "false", "true"} : Starts(text, c) ->
         Parsed([h EXCEPT ![i].type = Head(text)], Tail(text))
    [] \E c \in Numbers : Starts(text, c) ->
         Parsed([h EXCEPT ![i].type = "number", ![i].value = <<Head(text)>>],
                Tail(text))
    [] \E c \in DOMAIN Closing : Starts(text, c) ->
         LET typed == [h EXCEPT ![i].type = Opened[Head(text)]]
             close == Closing[Head(text)]
             first == NewItem(h)
         IN  IF Starts(Tail(text), close)
             THEN Parsed(typed, SubSeq(text, 3, Len(text)))
             ELSE IF first = Nil THEN Failed(typed)
             ELSE ParseEntries([typed EXCEPT ![i].child = first,
                                             ![first] = Item("false")],
                               first, close, Tail(text))
    [] OTHER -> Failed(h)

ParseEntries(h, i, close, text) ==
  LET name == IF close = "}" THEN ParseString(h, i, text, TRUE)
              ELSE Parsed(h, text)
      value == IF close = "]" THEN ParseValue(h, i, text)
               ELSE IF name.ok /\ Starts(name.rest, ":")
               THEN ParseValue(name.heap, i, Tail(name.rest))
               ELSE Failed(name.heap)
      next == NewItem(value.heap)
  IN  IF ~value.ok THEN value
      ELSE IF Starts(value.rest, close) THEN [value EXCEPT !.rest = Tail(@)]
      ELSE IF ~Starts(value.rest, ",") \/ next = Nil THEN Failed(value.heap)
      ELSE ParseEntries([value.heap EXCEPT ![i].next = next,
                                           ![next] = [Item("false")
                                                        EXCEPT !.prev = i]],
                        next, close, Tail(value.rest))

(* cJSON_Parse: the heap afterwards.  Text behind the value is ignored.    *)
Parse(h, text) ==
  LET root == NewItem(h)
      result == ParseValue([h EXCEPT ![root] = Item("false")], root, text)
  IN  IF root = Nil THEN h
      ELSE IF result.ok THEN result.heap
      ELSE DeleteItems(result.heap, root)

----------------------------------------------------------------------------
(* The user.  It keeps to what the library asks of it: an item is added    *)
(* only to one place, not below itself; a list that a reference shows is   *)
(* not changed, and neither an item in it nor one whose string a reference *)
(* shows is deleted while the reference lives.                             *)
Listed(h) == UNION { Range(List(h, i)) : i \in { j \in InUse(h) : ~h[j].ref } }
Alone     == InUse(jsonHeap) \ Listed(jsonHeap)

RECURSIVE Reached(_, _)
Reached(h, i) == {i} \cup UNION { Reached(h, j) : j \in Range(List(h, i)) }

RECURSIVE Owned(_, _)
Owned(h, i) ==
  {i} \cup IF h[i].ref THEN {}
           ELSE UNION { Owned(h, j) : j \in Range(List(h, i)) }

Shown(i) == jsonHeap[i].child # Nil
            /\ \E r \in InUse(jsonHeap) \ {i} :
                 jsonHeap[r].child = jsonHeap[i].child

Lists == { i \in InUse(jsonHeap) :
             /\ jsonHeap[i].type \in {"array", "object"}
             /\ ~jsonHeap[i].ref /\ ~Shown(i) }

Disposable(i) ==
  \A r \in InUse(jsonHeap) \ Owned(jsonHeap, i) :
    jsonHeap[r].ref =>
      {jsonHeap[r].child, jsonHeap[r].valuestring} \cap Owned(jsonHeap, i) = {}

NamesIn(a) == IF jsonHeap[a].type = "object" THEN JsonNames ELSE {NoName}
Named(h, i, name) ==
  IF name = NoName THEN h ELSE [h EXCEPT ![i].name = name]

(* The item that a call speaks of, by its place or by its name, is one of  *)
(* the list: an array's is any, an object's the first with its name.       *)
Chosen(a) ==
  LET list == List(jsonHeap, a)
  IN  IF jsonHeap[a].type = "array" THEN Range(list)
      ELSE { list[k] : k \in { n \in DOMAIN list : \A m \in 1..(n - 1) :
               jsonHeap[list[m]].name # jsonHeap[list[n]].name } }

----------------------------------------------------------------------------
Create(basic) ==
  LET new == NewItem(jsonHeap)
      typed == [jsonHeap EXCEPT ![new] = Item(basic.type)]
  IN  /\ new # Nil
      /\ jsonHeap' = IF basic.type = "string" THEN SetString(typed, new, basic.value)
                     ELSE [typed EXCEPT ![new].value = basic.value]

(* cJSON_CreateIntArray and its like.                                      *)
RECURSIVE Suffixed(_, _, _)
Suffixed(h, a, values) ==
  IF values = <<>> THEN h
  ELSE LET new == NewItem(h)
       IN  Suffixed(AddItem([h EXCEPT ![new] = [Item("number") EXCEPT
                                         !.value = <<Head(values)>>]], a, new),
                    a, Tail(values))

CreateArray(values) ==
  LET a == NewItem(jsonHeap)
  IN  /\ Cardinality(InUse(jsonHeap)) + 1 + Len(values) <= NumItems
      /\ jsonHeap' =
           Suffixed([jsonHeap EXCEPT ![a] = Item("array")], a, values)

AddItemTo(a, item, name) ==
  /\ item \in Alone /\ a \notin Reached(jsonHeap, item)
  /\ jsonHeap' = AddItem(Named(jsonHeap, item, name), a, item)

AddItemReference(a, item, name) ==
  LET ref == NewItem(jsonHeap)
      copy == [jsonHeap[item] EXCEPT !.ref = TRUE, !.name = name,
                                     !.next = Nil, !.prev = Nil, !.text = NoText]
  IN  /\ ref # Nil /\ a \notin Reached(jsonHeap, item)
      /\ jsonHeap' = AddItem([jsonHeap EXCEPT ![ref] = copy], a, ref)

Detach(a, c) ==
  jsonHeap' = DetachItem(jsonHeap, a, c)

DeleteFrom(a, c) ==
  /\ Disposable(c)
  /\ jsonHeap' = DeleteItems(DetachItem(jsonHeap, a, c), c)

Replace(a, c, new) ==
  /\ Disposable(c)
  /\ new \in Alone /\ a \notin Reached(jsonHeap, new)
  /\ jsonHeap' = LET name == IF jsonHeap[a].type = "object"
                             THEN jsonHeap[c].name ELSE NoName
                 IN  ReplaceItem(Named(jsonHeap, new, name), a, c, new)

Delete(i) ==
  /\ i \in Alone /\ Disposable(i)
  /\ jsonHeap' = DeleteItems(jsonHeap, i)

ParseText(text) == jsonHeap' = Parse(jsonHeap, text)

(* An item is printed and deleted, and its text parsed.                    *)
Transfer(i) ==
  /\ i \in Alone /\ Disposable(i)
  /\ jsonHeap' = Parse(DeleteItems(jsonHeap, i), PrintValue(jsonHeap, i))

JsonNext ==
  \/ \E basic \in JsonBasics : Create(basic)
  \/ \E values \in JsonArrays : CreateArray(values)
  \/ \E a \in Lists :
       \/ \E item \in InUse(jsonHeap), name \in NamesIn(a) :
            AddItemTo(a, item, name) \/ AddItemReference(a, item, name)
       \/ \E c \in Chosen(a) :
            \/ Detach(a, c) \/ DeleteFrom(a, c)
            \/ \E new \in Alone : Replace(a, c, new)
  \/ \E i \in InUse(jsonHeap) : Delete(i) \/ Transfer(i)
  \/ \E text \in JsonTexts : ParseText(text)

----------------------------------------------------------------------------
(* The lists, as they are found in the heap.                               *)
Promise == INSTANCE JsonLists WITH
  JsonIds <- Items,
  tree <- [i \in InUse(jsonHeap) |->
             [type |-> jsonHeap[i].type, ref |-> jsonHeap[i].ref,
              value |-> Shows(jsonHeap, i), name |-> jsonHeap[i].name,
              list |-> List(jsonHeap, i)]]

(* Whatever a user does with items, lists, names and references: the       *)
(* library's pointers hold the lists that its calls describe, no item and  *)
(* no string is freed under another that shows it, and a value that is     *)
(* printed and parsed is itself (src/netutils/json/cJSON.c).               *)
ListsKept == Promise!ListsSpec

============================================================================
