------------------------------- MODULE ListX -------------------------------
(***************************************************************************)
(* The circular doubly linked lists of headers/listx.h.  links is the      *)
(* fields next and prev of all list_heads, of elements and of lists.  What *)
(* a function of listx.h does is a sequence of writes <<field, where, to>>,*)
(* with its arguments read before the first.                               *)
(***************************************************************************)
EXTENDS Integers, SequencesExt

Do(links, w) == [links EXCEPT ![w[1]][w[2]] = w[3]]
DoAll(links, writes) ==
  LET done[i \in 0 .. Len(writes)] ==
        IF i = 0 THEN links ELSE Do(done[i - 1], writes[i])
  IN  done[Len(writes)]

INIT_LIST_HEAD(list) == <<<<"next", list, list>>, <<"prev", list, list>>>>

(* __list_add and its two callers. *)
Between(new, prev, next) ==
  <<<<"prev", next, new>>, <<"next", new, next>>, <<"prev", new, prev>>, <<"next", prev, new>>>>
list_add(links, new, head) == Between(new, head, links["next"][head])
list_add_tail(links, new, head) == Between(new, links["prev"][head], head)

(* list_del; without __list_del's first write it would go on backwards. *)
list_del_forward(links, entry) ==
  <<<<"next", links["prev"][entry], links["next"][entry]>>>> \o INIT_LIST_HEAD(entry)
list_del(links, entry) ==
  <<<<"prev", links["next"][entry], links["prev"][entry]>>,
    <<"next", links["prev"][entry], links["next"][entry]>>>> \o INIT_LIST_HEAD(entry)

list_empty(links, head) == links["next"][head] = head

(* list_for_each: the elements from head on in the direction of a field,   *)
(* until head comes again (within n steps, or the list is no list).        *)
Elements(links, field, head, n) ==
  LET walk[i \in 0 .. n + 1] == IF i = 0 THEN head ELSE links[field][walk[i - 1]]
      back == {i \in 1 .. n + 1 : walk[i] = head}
  IN  IF back = {} THEN <<>> ELSE [i \in 1 .. Min(back) - 1 |-> walk[i]]

(* No list_head's neighbours disagree with it. *)
WellLinked(links) ==
  \A x \in DOMAIN links["next"] :
    links["prev"][links["next"][x]] = x /\ links["next"][links["prev"][x]] = x
=============================================================================
