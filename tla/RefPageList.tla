---------------------------- MODULE RefPageList ----------------------------
(***************************************************************************)
(* The list of pages of labs/lab2/mod/paging.c, pointer by pointer: do_fault   *)
(* adds a node at its head, paging_vma_close walks over it and frees every     *)
(* node, and neither takes a lock.  Paging has the list as a set and stops     *)
(* where a close meets another operation; here they meet on several CPUs.      *)
(*                                                                         *)
(* The model stops (oops) where freed memory is used or freed once more.       *)
(***************************************************************************)
EXTENDS Naturals, FiniteSets

CONSTANTS
  Cpus,
  Nodes,   \* ref_page_nodes, each with its page
  head     \* ref_page_list

ASSUME ListAssumption == IsFiniteSet(Nodes) /\ head \notin Nodes

VARIABLES
  next, prev,     \* the pointers of each list_head
  nodes,          \* the nodes that are allocated
  pages,          \* the nodes whose page is allocated
  listPc,         \* where each CPU is
  node,           \* page_node: the one to add, the one the walk is at
  temp,           \* the one the walk goes to next
  before, after,  \* what list_add and list_del have loaded: prev and next
  oops,
  addsMet,        \* two list_adds have been under way at once (history)
  closeMet        \* a close and something else have (history)

linkVars == <<next, prev>>
allocVars == <<nodes, pages>>
localVars == <<node, temp, before, after>>
metVars == <<addsMet, closeMet>>
listVars == <<linkVars, allocVars, listPc, localVars, oops, metVars>>

Links == Nodes \cup {head}
Adding(c)  == listPc[c] \in {"add", "next", "new", "publish"}
Closing(c) == listPc[c] \in {"first", "temp", "page", "unprev", "unnext", "free"}

-----------------------------------------------------------------------------
(* Mutated forms of the operators that follow. *)
LinkNew_Dropped(c) == next
Unlink_Dropped(c) == next

-----------------------------------------------------------------------------
\* The next pointers after new->next = next, and after prev->next = next.
LinkNew(c) == [next EXCEPT ![node[c]] = after[c]]
Unlink(c) == [next EXCEPT ![before[c]] = after[c]]

ListInit ==
  /\ next = [l \in Links |-> head] /\ prev = [l \in Links |-> head]
  /\ nodes = {} /\ pages = {}
  /\ listPc = [c \in Cpus |-> "idle"]
  /\ node = [c \in Cpus |-> head] /\ temp = [c \in Cpus |-> head]
  /\ before = [c \in Cpus |-> head] /\ after = [c \in Cpus |-> head]
  /\ oops = FALSE /\ addsMet = FALSE /\ closeMet = FALSE

ListGoto(c, l) == listPc' = [listPc EXCEPT ![c] = l]

\* What has gone wrong between a close and another operation can go on going
\* wrong: here nothing begins any more after they have met, and what is under way
\* goes on.
Begins(c) == listPc[c] = "idle" /\ ~oops /\ ~closeMet

\* A step that uses the pointers of l: with l freed, the model stops.
Uses(l) == ~oops /\ oops' = (l \in Nodes \ nodes)

-----------------------------------------------------------------------------
(* do_fault: the node, then list_add(new, head) *)

KmallocNode(c) ==
  /\ Begins(c) /\ ListGoto(c, "add")
  /\ \E f \in Nodes \ nodes :
       /\ nodes' = nodes \cup {f} /\ pages' = pages \cup {f}
       /\ node' = [node EXCEPT ![c] = f]
       /\ next' = [next EXCEPT ![f] = f] /\ prev' = [prev EXCEPT ![f] = f]
  /\ addsMet' = (addsMet \/ \E d \in Cpus : Adding(d))
  /\ closeMet' = (closeMet \/ \E d \in Cpus : Closing(d))
  /\ UNCHANGED <<temp, before, after, oops>>

LoadHead(c) ==
  /\ listPc[c] = "add" /\ ~oops /\ ListGoto(c, "next")
  /\ after' = [after EXCEPT ![c] = next[head]]
  /\ UNCHANGED <<linkVars, allocVars, node, temp, before, oops, metVars>>

NextPrev(c) ==
  /\ listPc[c] = "next" /\ Uses(after[c]) /\ ListGoto(c, "new")
  /\ prev' = [prev EXCEPT ![after[c]] = node[c]]
  /\ UNCHANGED <<next, allocVars, localVars, metVars>>

NewLinks(c) ==
  /\ listPc[c] = "new" /\ Uses(node[c]) /\ ListGoto(c, "publish")
  /\ next' = LinkNew(c) /\ prev' = [prev EXCEPT ![node[c]] = head]
  /\ UNCHANGED <<allocVars, localVars, metVars>>

Publish(c) ==
  /\ listPc[c] = "publish" /\ ~oops /\ ListGoto(c, "idle")
  /\ next' = [next EXCEPT ![head] = node[c]]
  /\ node' = [node EXCEPT ![c] = head] /\ after' = [after EXCEPT ![c] = head]
  /\ UNCHANGED <<prev, allocVars, temp, before, oops, metVars>>

-----------------------------------------------------------------------------
(* paging_vma_close: list_for_each_entry_safe *)

BeginClose(c) ==
  /\ Begins(c) /\ ListGoto(c, "first")
  /\ closeMet' = (closeMet \/ \E d \in Cpus : Adding(d) \/ Closing(d))
  /\ UNCHANGED <<linkVars, allocVars, localVars, oops, addsMet>>

FirstNode(c) ==
  /\ listPc[c] = "first" /\ ~oops /\ ListGoto(c, "temp")
  /\ node' = [node EXCEPT ![c] = next[head]]
  /\ UNCHANGED <<linkVars, allocVars, temp, before, after, oops, metVars>>

\* The node after this one is noted, and the loop ends at the head.
NoteTemp(c) ==
  /\ listPc[c] = "temp" /\ Uses(node[c])
  /\ \/ node[c] = head /\ ListGoto(c, "idle") /\ temp' = [temp EXCEPT ![c] = head]
     \/ node[c] # head /\ ListGoto(c, "page") /\ temp' = [temp EXCEPT ![c] = next[node[c]]]
  /\ UNCHANGED <<linkVars, allocVars, node, before, after, metVars>>

\* __free_page, and list_del loads the pointers of the node.
FreePage(c) ==
  /\ listPc[c] = "page" /\ ~oops /\ oops' = (node[c] \notin nodes \cap pages)
  /\ ListGoto(c, "unprev")
  /\ pages' = pages \ {node[c]}
  /\ before' = [before EXCEPT ![c] = prev[node[c]]]
  /\ after' = [after EXCEPT ![c] = next[node[c]]]
  /\ UNCHANGED <<linkVars, nodes, node, temp, metVars>>

UnlinkPrev(c) ==
  /\ listPc[c] = "unprev" /\ Uses(after[c]) /\ ListGoto(c, "unnext")
  /\ prev' = [prev EXCEPT ![after[c]] = before[c]]
  /\ UNCHANGED <<next, allocVars, localVars, metVars>>

UnlinkNext(c) ==
  /\ listPc[c] = "unnext" /\ Uses(before[c]) /\ ListGoto(c, "free")
  /\ next' = Unlink(c)
  /\ UNCHANGED <<prev, allocVars, localVars, metVars>>

\* kfree(page_node), and on to the node noted.
KfreeNode(c) ==
  /\ listPc[c] = "free" /\ Uses(node[c]) /\ ListGoto(c, "temp")
  /\ nodes' = nodes \ {node[c]}
  /\ next' = [next EXCEPT ![node[c]] = head] /\ prev' = [prev EXCEPT ![node[c]] = head]
  /\ node' = [node EXCEPT ![c] = temp[c]]
  /\ before' = [before EXCEPT ![c] = head] /\ after' = [after EXCEPT ![c] = head]
  /\ UNCHANGED <<pages, temp, metVars>>

ListNext ==
  \E c \in Cpus :
    \/ KmallocNode(c) \/ LoadHead(c) \/ NextPrev(c) \/ NewLinks(c) \/ Publish(c)
    \/ BeginClose(c) \/ FirstNode(c) \/ NoteTemp(c) \/ FreePage(c) \/ UnlinkPrev(c)
    \/ UnlinkNext(c) \/ KfreeNode(c)

ListSpec == ListInit /\ [][ListNext]_listVars

-----------------------------------------------------------------------------
ListTypeOK ==
  /\ {next, prev} \subseteq [Links -> Links]
  /\ nodes \subseteq Nodes /\ pages \subseteq Nodes
  /\ listPc \in [Cpus -> {"idle", "add", "next", "new", "publish", "first", "temp", "page",
                          "unprev", "unnext", "free"}]
  /\ {node, temp, before, after} \subseteq [Cpus -> Links]
  /\ {oops, addsMet, closeMet} \subseteq BOOLEAN

\* The links a walk follows, step by step.
Walk ==
  LET w[k \in 0..Cardinality(Nodes)] ==
        IF k = 0 THEN next[head] ELSE IF w[k - 1] = head THEN head ELSE next[w[k - 1]]
  IN w
Listed == {Walk[k] : k \in DOMAIN Walk} \ {head}

\* As long as no close meets another operation, no freed node is used and no page
\* freed twice, a walk from the head comes back to it and sees allocated nodes
\* only, in the middle of every operation and in spite of list_adds that meet:
\* the nodes these leave badly linked do no harm to a close that comes later.  If
\* no list_adds have met either, no node is lost between the operations, and the
\* list is the same backwards.
ListWhole ==
  ~closeMet =>
    /\ ~oops
    /\ Walk[Cardinality(Nodes)] = head /\ Listed \subseteq nodes
    /\ ~addsMet /\ (\A c \in Cpus : listPc[c] = "idle") =>
         /\ nodes = Listed /\ pages = Listed
         /\ \A l \in Listed \cup {head} : prev[next[l]] = l

\* A page stands for its node.  The set is empty as soon as a close begins, and its
\* pages are given back then: the close is the only one to see them.
Set ==
  INSTANCE PageSet
  WITH Pages <- Nodes,
       used <- IF \E c \in Cpus : Closing(c) THEN pages \ Listed ELSE pages,
       list <- IF \E c \in Cpus : Closing(c) THEN {} ELSE Listed

\* The list is the set that Paging has, in spite of the pointers that are wrong in
\* the middle of an operation: adds put one page in, a close gives all of them
\* back and no other, also after list_adds have met.
ImplementsPageSet == Set!SetSpec
=============================================================================
