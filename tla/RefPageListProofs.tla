-------------------------- MODULE RefPageListProofs --------------------------
(***************************************************************************)
(* Proofs about RefPageList, for any number of CPUs and of nodes: ListWhole,    *)
(* and that the list implements PageSet.                                     *)
(*                                                                         *)
(* The list is followed through pointers that list_adds tear at, so a walk is  *)
(* not shown to end by looking at the list but by a set of nodes L with a rank *)
(* r: from the head and from every node of L the next pointer leads into L or  *)
(* back to the head, and always to a lower rank.  Each step keeps such an L    *)
(* and r or makes the next ones.                                             *)
(***************************************************************************)
EXTENDS RefPageList, FiniteSetTheorems, TLAPS, NaturalsInduction, WellFoundedInduction

-----------------------------------------------------------------------------
(* Induction over the naturals, for sets *)

\* The naturals are well-founded.
LEMMA LessWF ==
  \E R : IsWellFoundedOn(R, Nat) /\ \A x, y \in Nat : <<x, y>> \in R <=> x < y
<1> DEFINE R == OpToRel(<, Nat)
<1>2. IsWellFoundedOn(R, Nat)
  BY NatLessThanWellFounded
<1>4. \A x, y \in Nat : <<x, y>> \in R <=> x < y
  BY DEF OpToRel
<1> HIDE DEF R
<1> QED
  BY <1>2, <1>4

\* A set of naturals has a least element.
LEMMA LeastNat ==
  ASSUME NEW T \in SUBSET Nat, T # {}
  PROVE  \E x \in T : \A y \in T : x <= y
<1>2. PICK R : IsWellFoundedOn(R, Nat) /\ \A x, y \in Nat : <<x, y>> \in R <=> x < y
  BY LessWF
<1>3. T \subseteq Nat /\ T # {} /\ IsWellFoundedOn(R, Nat)
  BY <1>2
<1>5. PICK x \in T : \A y \in T : ~ (<<y, x>> \in R)
  BY ONLY <1>3, WFMin, Zenon
<1>6. \A y \in T : x \in Nat /\ y \in Nat /\ ~ (y < x)
  BY <1>5, <1>2, Zenon
<1> QED
  BY <1>6

\* A set that has 0 and the successor of each element has every natural.
LEMMA SetInd ==
  ASSUME NEW S \in SUBSET Nat, 0 \in S, \A n \in S : n + 1 \in S
  PROVE  S = Nat
<1>1. SUFFICES ASSUME Nat \ S # {} PROVE FALSE
  OBVIOUS
<1>3. PICK x \in Nat \ S : \A y \in Nat \ S : x <= y
  BY <1>1, LeastNat
<1>4. x # 0 /\ x - 1 \in Nat /\ x = (x - 1) + 1 /\ x - 1 < x
  OBVIOUS
<1>5. x - 1 \in S
  BY <1>3, <1>4
<1> QED
  BY <1>4, <1>5, <1>3

-----------------------------------------------------------------------------
(* The inductive invariant *)

WithHead(L) == L \cup {head}

\* The chain: next leads down in rank, within L, to the head.
Ranked(L, r) ==
  /\ next[head] \in WithHead(L)
  /\ \A l \in L : next[l] \in WithHead(L) /\ r[next[l]] < r[l]

\* list_add has loaded next.
Linking(c) == listPc[c] \in {"next", "new", "publish"}

\* A node that is being added is one operation's own and outside of L; what it is
\* linked to is in L.
Adder(c, L) ==
  /\ Adding(c) =>
       /\ node[c] \in nodes \ L
       /\ \A d \in Cpus : Adding(d) /\ node[d] = node[c] => d = c
  /\ Linking(c) => after[c] \in WithHead(L)
  /\ listPc[c] = "publish" => next[node[c]] = after[c] /\ prev[node[c]] = head

\* The first node knows that it is, or a list_add is about to make another the first.
FirstLinked ==
  \/ prev[next[head]] = head
  \/ \E c \in Cpus : listPc[c] \in {"new", "publish"} /\ after[c] = next[head]

\* The page of the node has its turn, or list_del is under way.
Unlinking(c) == listPc[c] \in {"page", "unprev", "unnext"}
\* A close is alone, and where it is in the list.
Closer(c, L) ==
  Closing(c) =>
    /\ \A d \in Cpus : d # c => listPc[d] = "idle"
    /\ listPc[c] = "temp" => node[c] = next[head]
    /\ Unlinking(c) => node[c] = next[head] /\ node[c] \in L /\ temp[c] = next[node[c]]
    /\ listPc[c] \in {"unprev", "unnext"} => before[c] = head /\ after[c] = temp[c]
    /\ listPc[c] = "unnext" => prev[after[c]] = head
    /\ listPc[c] = "free" => node[c] \in nodes \ L /\ temp[c] = next[head]

\* A node without its page is one that a close is freeing.
PageGone(c) == listPc[c] \in {"unprev", "unnext", "free"}
PagesMatch == pages = nodes \ {node[c] : c \in {d \in Cpus : PageGone(d)}}

\* Without list_adds that have met, L has every node but the one in hand, is linked
\* both ways and leaves no node out of reach.
NoneLost(L) ==
  /\ \A c, d \in Cpus : Adding(c) /\ Adding(d) => c = d
  /\ \A n \in nodes \ L : \E c \in Cpus : node[c] = n /\ (Adding(c) \/ listPc[c] = "free")
  /\ \A c \in Cpus : Linking(c) => after[c] = next[head]
  /\ \A c \in Cpus : listPc[c] \in {"new", "publish"} => prev[after[c]] = node[c]
  /\ \A l \in L : prev[next[l]] = l \/ \E c \in Cpus : listPc[c] = "unnext" /\ node[c] = l
  /\ \A x \in L : \E l \in WithHead(L) : next[l] = x

Chained(L, r) ==
  /\ Ranked(L, r) /\ FirstLinked /\ PagesMatch
  /\ \A c \in Cpus : Adder(c, L) /\ Closer(c, L)
  /\ ~addsMet => NoneLost(L)

\* The inductive invariant.
ListIInv ==
  /\ ListTypeOK
  /\ ~closeMet => ~oops /\ \E L \in SUBSET nodes, r \in [Links -> Nat] : Chained(L, r)

-----------------------------------------------------------------------------
\* Every step keeps the types.
LEMMA ListTypeStep ==
  ASSUME ListTypeOK, [ListNext]_listVars PROVE ListTypeOK'
<1> USE DEF ListTypeOK, ListGoto, Uses, Begins, linkVars, allocVars, localVars, metVars,
            Adding, Closing
<1>0. head \in Links /\ Nodes \subseteq Links
  BY DEF Links
<1>1. ASSUME NEW c \in Cpus, KmallocNode(c) PROVE ListTypeOK'
  <2>1. PICK f \in Nodes \ nodes :
          /\ nodes' = nodes \cup {f} /\ pages' = pages \cup {f}
          /\ node' = [node EXCEPT ![c] = f]
          /\ next' = [next EXCEPT ![f] = f] /\ prev' = [prev EXCEPT ![f] = f]
    BY <1>1 DEF KmallocNode
  <2>2. f \in Links
    BY <1>0
  <2>3. /\ addsMet' \in BOOLEAN /\ closeMet' \in BOOLEAN
        /\ listPc' = [listPc EXCEPT ![c] = "add"]
        /\ UNCHANGED <<temp, before, after, oops>>
    BY <1>1 DEF KmallocNode
  <2> QED
    BY <2>1, <2>2, <2>3
<1>2. ASSUME NEW c \in Cpus, LoadHead(c) PROVE ListTypeOK'
  BY <1>0, <1>2 DEF LoadHead
<1>3. ASSUME NEW c \in Cpus, NextPrev(c) PROVE ListTypeOK'
  BY <1>0, <1>3 DEF NextPrev
<1>4. ASSUME NEW c \in Cpus, NewLinks(c) PROVE ListTypeOK'
  BY <1>0, <1>4 DEF NewLinks, LinkNew
<1>5. ASSUME NEW c \in Cpus, Publish(c) PROVE ListTypeOK'
  BY <1>0, <1>5 DEF Publish
<1>6. ASSUME NEW c \in Cpus, BeginClose(c) PROVE ListTypeOK'
  BY <1>0, <1>6 DEF BeginClose
<1>7. ASSUME NEW c \in Cpus, FirstNode(c) PROVE ListTypeOK'
  BY <1>0, <1>7 DEF FirstNode
<1>8. ASSUME NEW c \in Cpus, NoteTemp(c) PROVE ListTypeOK'
  <2>1. temp' \in [Cpus -> Links] /\ oops' \in BOOLEAN
    BY <1>0, <1>8 DEF NoteTemp
  <2>2. listPc' \in [Cpus -> {"idle", "add", "next", "new", "publish", "first", "temp", "page",
                              "unprev", "unnext", "free"}]
    BY <1>8 DEF NoteTemp
  <2> QED
    BY <1>8, <2>1, <2>2 DEF NoteTemp
<1>9. ASSUME NEW c \in Cpus, FreePage(c) PROVE ListTypeOK'
  BY <1>0, <1>9 DEF FreePage
<1>10. ASSUME NEW c \in Cpus, UnlinkPrev(c) PROVE ListTypeOK'
  BY <1>0, <1>10 DEF UnlinkPrev
<1>11. ASSUME NEW c \in Cpus, UnlinkNext(c) PROVE ListTypeOK'
  BY <1>0, <1>11 DEF UnlinkNext, Unlink
<1>12. ASSUME NEW c \in Cpus, KfreeNode(c) PROVE ListTypeOK'
  BY <1>0, <1>12 DEF KfreeNode
<1>13. CASE UNCHANGED listVars
  BY <1>13 DEF listVars
<1> QED
  BY <1>1, <1>2, <1>3, <1>4, <1>5, <1>6, <1>7, <1>8, <1>9, <1>10, <1>11, <1>12, <1>13
  DEF ListNext

-----------------------------------------------------------------------------
(* The steps of list_add *)

InChain(L, r) ==
  ListTypeOK /\ ~oops /\ ~closeMet /\ L \in SUBSET nodes /\ r \in [Links -> Nat] /\ Chained(L, r)

\* The new node is outside of the chain.
LEMMA KmallocKeeps ==
  ASSUME NEW L, NEW r, InChain(L, r), NEW c \in Cpus, KmallocNode(c), ~closeMet'
  PROVE  ~oops' /\ L \in SUBSET nodes' /\ Chained(L, r)'
<1>1. PICK f \in Nodes \ nodes :
        /\ nodes' = nodes \cup {f} /\ pages' = pages \cup {f}
        /\ node' = [node EXCEPT ![c] = f]
        /\ next' = [next EXCEPT ![f] = f] /\ prev' = [prev EXCEPT ![f] = f]
  BY DEF KmallocNode
<1>2. /\ listPc[c] = "idle" /\ listPc' = [listPc EXCEPT ![c] = "add"]
      /\ UNCHANGED <<temp, before, after, oops>>
      /\ \A d \in Cpus : ~Closing(d)
      /\ addsMet' = (addsMet \/ \E d \in Cpus : Adding(d))
  BY DEF KmallocNode, Begins, ListGoto
<1>3. /\ next \in [Links -> Links] /\ prev \in [Links -> Links] /\ L \subseteq nodes
      /\ nodes \subseteq Nodes /\ head \notin Nodes /\ node \in [Cpus -> Links]
      /\ f \notin L /\ f # head /\ f \in Links
      /\ \A d \in Cpus : listPc'[d] = IF d = c THEN "add" ELSE listPc[d]
      /\ \A d \in Cpus : node'[d] = IF d = c THEN f ELSE node[d]
      /\ \A l \in Links \ {f} : next'[l] = next[l] /\ prev'[l] = prev[l]
  BY <1>1, <1>2, ListAssumption DEF InChain, ListTypeOK, Links
<1>4. \A l \in WithHead(L) : next[l] \in WithHead(L) /\ next'[l] = next[l] /\ l \in Links \ {f}
  BY <1>3 DEF InChain, Chained, Ranked, WithHead, Links
<1>5. Ranked(L, r)' /\ next'[head] = next[head]
  BY <1>4 DEF InChain, Chained, Ranked, WithHead
<1>6. FirstLinked'
  BY <1>2, <1>3, <1>4, <1>5 DEF InChain, Chained, FirstLinked, WithHead
<1>7. \A d \in Cpus : ~Closing(d)' /\ ~PageGone(d)' /\ ~PageGone(d)
  BY <1>2, <1>3 DEF Closing, PageGone
<1>8. PagesMatch'
  BY <1>1, <1>7 DEF InChain, Chained, PagesMatch
<1>9. \A d \in Cpus : Adding(d)' => d = c \/ (Adding(d) /\ d # c)
  BY <1>3 DEF Adding
<1>10. ASSUME NEW d \in Cpus PROVE Adder(d, L)' /\ Closer(d, L)'
  <2>1. Closer(d, L)'
    BY <1>7 DEF Closer
  <2>2. CASE d = c
    <3>1. node'[c] = f /\ f \in nodes' \ L /\ listPc'[c] = "add"
      BY <1>1, <1>3
    <3>2. ASSUME NEW e \in Cpus, Adding(e)', e # c PROVE node'[e] # f
      <4>1. Adding(e) /\ node'[e] = node[e]
        BY <1>3, <1>9, <3>2
      <4>2. node[e] \in nodes
        BY <4>1 DEF InChain, Chained, Adder
      <4> QED
        BY <4>1, <4>2
    <3> QED
      BY <2>1, <2>2, <3>1, <3>2 DEF Adder, Linking
  <2>3. CASE d # c
    <3>1. Adder(d, L)
      BY DEF InChain, Chained
    <3>2. Linking(d)' <=> Linking(d)
      BY <1>3, <2>3 DEF Linking
    <3>3. Adding(d)' => node'[d] \in nodes' \ L /\ node'[d] # f
      BY <1>1, <1>3, <1>9, <2>3, <3>1 DEF Adder
    <3>4. ASSUME Adding(d)', NEW e \in Cpus, Adding(e)', node'[e] = node'[d] PROVE e = d
      BY <1>3, <1>9, <2>3, <3>1, <3>3, <3>4 DEF Adder
    <3>5. Linking(d)' => after'[d] \in WithHead(L)
      BY <1>2, <3>1, <3>2 DEF Adder
    <3>6. listPc'[d] = "publish" => next'[node'[d]] = after'[d] /\ prev'[node'[d]] = head
      BY <1>2, <1>3, <2>3, <3>1, <3>3 DEF Adder, Adding
    <3> QED
      BY <2>1, <3>3, <3>4, <3>5, <3>6, Zenon DEF Adder, WithHead
  <2> QED
    BY <2>1, <2>2, <2>3
<1>11. ~addsMet' => NoneLost(L)'
  <2> SUFFICES ASSUME ~addsMet' PROVE NoneLost(L)'
    OBVIOUS
  <2>1. ~addsMet /\ \A d \in Cpus : ~Adding(d)
    BY <1>2
  <2>2. NoneLost(L) /\ \A d \in Cpus : ~Closing(d) /\ ~Linking(d)'
    BY <1>2, <1>3, <2>1 DEF InChain, Chained, Linking, Adding
  <2>3. nodes \subseteq L
    BY <2>1, <2>2 DEF NoneLost, Closing
  <2>4. \A n \in nodes' \ L : \E d \in Cpus : node'[d] = n /\ Adding(d)'
    BY <1>1, <1>3, <2>3 DEF Adding
  <2>5. \A l \in L : prev'[next'[l]] = l
    BY <1>3, <1>4, <2>2 DEF NoneLost, Closing, WithHead
  <2>6. \A x \in L : \E l \in WithHead(L) : next'[l] = x
    BY <1>4, <2>2 DEF NoneLost
  <2>7. \A d \in Cpus : listPc'[d] \notin {"new", "publish"}
    BY <2>2 DEF Linking
  <2> QED
    BY <1>9, <2>1, <2>2, <2>4, <2>5, <2>6, <2>7 DEF NoneLost, WithHead
<1> QED
  BY <1>1, <1>2, <1>5, <1>6, <1>8, <1>10, <1>11 DEF InChain, Chained, ListTypeOK

\* While a node is being added nobody walks the list.
LEMMA NoneCloses ==
  ASSUME NEW L, NEW r, InChain(L, r), NEW c \in Cpus, Adding(c)
  PROVE  \A d \in Cpus : ~Closing(d) /\ ~PageGone(d) /\ listPc[d] # "unnext"
<1> SUFFICES ASSUME NEW d \in Cpus PROVE ~Closing(d)
  BY DEF Closing, PageGone
<1>1. Closer(d, L) /\ ~Closing(c) /\ listPc[c] # "idle"
  BY DEF InChain, Chained, Adding, Closing
<1> QED
  BY <1>1 DEF Closer

\* A step within list_add: what every such step leaves.
LEMMA AddersKeep ==
  ASSUME NEW L, NEW r, InChain(L, r), UNCHANGED <<nodes, node>>,
         \A d \in Cpus : Adding(d)' <=> Adding(d),
         NEW d \in Cpus,
         Linking(d)' => after'[d] \in WithHead(L),
         listPc'[d] = "publish" => next'[node[d]] = after'[d] /\ prev'[node[d]] = head
  PROVE  Adder(d, L)'
<1>1. Adder(d, L)
  BY DEF InChain, Chained
<1>2. Adding(d)' => node'[d] \in nodes' \ L
  BY <1>1 DEF Adder
<1>3. \A e \in Cpus : Adding(e)' /\ node'[e] = node'[d] /\ Adding(d)' => e = d
  BY <1>1 DEF Adder
<1> QED
  BY <1>2, <1>3, Zenon DEF Adder, WithHead

\* The variables of a chain and their types.
LEMMA ChainTypes ==
  ASSUME NEW L, NEW r, InChain(L, r)
  PROVE  /\ next \in [Links -> Links] /\ prev \in [Links -> Links] /\ L \subseteq nodes
         /\ nodes \subseteq Nodes /\ pages \subseteq Nodes /\ head \notin Nodes /\ head \in Links
         /\ node \in [Cpus -> Links] /\ after \in [Cpus -> Links] /\ temp \in [Cpus -> Links]
         /\ before \in [Cpus -> Links]
         /\ WithHead(L) \subseteq Links /\ r \in [Links -> Nat]
         /\ next[head] \in WithHead(L)
         /\ \A l \in L : next[l] \in WithHead(L) /\ r[next[l]] < r[l]
         /\ \A l \in WithHead(L) : next[l] \in WithHead(L)
         /\ listPc = [d \in Cpus |-> listPc[d]]
BY ListAssumption DEF InChain, ListTypeOK, Links, Chained, Ranked, WithHead

\* next is loaded: it is in the chain.
LEMMA LoadKeeps ==
  ASSUME NEW L, NEW r, InChain(L, r), NEW c \in Cpus, LoadHead(c), ~closeMet'
  PROVE  ~oops' /\ L \in SUBSET nodes' /\ Chained(L, r)'
<1>1. /\ listPc[c] = "add" /\ listPc' = [listPc EXCEPT ![c] = "next"]
      /\ after' = [after EXCEPT ![c] = next[head]]
      /\ UNCHANGED <<next, prev, nodes, pages, node, temp, before, oops, addsMet>>
  BY DEF LoadHead, ListGoto, linkVars, allocVars, metVars
<1>2. /\ \A d \in Cpus : listPc'[d] = IF d = c THEN "next" ELSE listPc[d]
      /\ \A d \in Cpus : after'[d] = IF d = c THEN next[head] ELSE after[d]
  BY <1>1, ChainTypes
<1>3. \A d \in Cpus : Adding(d)' <=> Adding(d)
  BY <1>1, <1>2 DEF Adding
<1>4. \A d \in Cpus : ~Closing(d) /\ ~Closing(d)' /\ ~PageGone(d) /\ ~PageGone(d)'
  BY <1>1, <1>2, NoneCloses DEF Adding, Closing, PageGone
<1>5. Ranked(L, r)' /\ PagesMatch'
  BY <1>1, <1>4 DEF InChain, Chained, Ranked, PagesMatch
<1>6. FirstLinked'
  BY <1>1, <1>2 DEF InChain, Chained, FirstLinked
<1>7. ASSUME NEW d \in Cpus PROVE Adder(d, L)' /\ Closer(d, L)'
  <2>1. Linking(d)' => after'[d] \in WithHead(L)
    BY <1>2, ChainTypes DEF InChain, Chained, Adder, Linking
  <2>2. listPc'[d] = "publish" => next'[node[d]] = after'[d] /\ prev'[node[d]] = head
    BY <1>1, <1>2 DEF InChain, Chained, Adder
  <2> QED
    BY <1>1, <1>3, <1>4, <2>1, <2>2, AddersKeep DEF Closer
<1>8. ~addsMet' => NoneLost(L)'
  <2> SUFFICES ASSUME ~addsMet PROVE NoneLost(L)'
    BY <1>1
  <2>1. NoneLost(L) /\ Adding(c)
    BY <1>1 DEF InChain, Chained, Adding
  <2>2. \A d \in Cpus : Linking(d)' => after'[d] = next'[head]
    BY <1>1, <1>2, <2>1 DEF NoneLost, Linking
  <2>3. \A d \in Cpus : listPc[d] \notin {"free", "unnext"}
    BY <1>4 DEF Closing
  <2>4. \A d \in Cpus : listPc'[d] \notin {"new", "publish"}
    BY <1>1, <1>2, <2>1 DEF NoneLost, Adding
  <2> QED
    BY <1>1, <1>3, <2>1, <2>2, <2>3, <2>4 DEF NoneLost
<1> QED
  BY <1>1, <1>5, <1>6, <1>7, <1>8 DEF InChain, Chained

\* next->prev = new: the node that was first has another before it.
LEMMA NextPrevKeeps ==
  ASSUME NEW L, NEW r, InChain(L, r), NEW c \in Cpus, NextPrev(c), ~closeMet'
  PROVE  ~oops' /\ L \in SUBSET nodes' /\ Chained(L, r)'
<1>1. /\ listPc[c] = "next" /\ listPc' = [listPc EXCEPT ![c] = "new"]
      /\ prev' = [prev EXCEPT ![after[c]] = node[c]]
      /\ oops' = (after[c] \in Nodes \ nodes)
      /\ UNCHANGED <<next, nodes, pages, node, temp, before, after, addsMet>>
  BY DEF NextPrev, Uses, ListGoto, allocVars, localVars, metVars
<1>2. /\ \A d \in Cpus : listPc'[d] = IF d = c THEN "new" ELSE listPc[d]
      /\ \A l \in Links : prev'[l] = IF l = after[c] THEN node[c] ELSE prev[l]
  BY <1>1, ChainTypes
<1>a. after[c] \in WithHead(L) /\ Adding(c) /\ Linking(c)
  BY <1>1 DEF InChain, Chained, Adder, Linking, Adding
<1>b. ~oops'
  BY <1>1, <1>a, ChainTypes DEF WithHead
<1>3. \A d \in Cpus : (Adding(d)' <=> Adding(d)) /\ (Linking(d)' <=> Linking(d))
  BY <1>1, <1>2 DEF Adding, Linking
<1>4. \A d \in Cpus : ~Closing(d) /\ ~Closing(d)' /\ ~PageGone(d) /\ ~PageGone(d)'
  BY <1>1, <1>2, <1>a, NoneCloses DEF Closing, PageGone
<1>5. Ranked(L, r)' /\ PagesMatch'
  BY <1>1, <1>4 DEF InChain, Chained, Ranked, PagesMatch
<1>6. FirstLinked'
  <2>1. next[head] \in Links
    BY ChainTypes
  <2>2. CASE after[c] = next[head]
    BY <1>1, <1>2, <2>2 DEF FirstLinked
  <2>3. CASE after[c] # next[head]
    BY <1>1, <1>2, <2>1, <2>3 DEF InChain, Chained, FirstLinked
  <2> QED
    BY <2>2, <2>3
<1>7. ASSUME NEW d \in Cpus PROVE Adder(d, L)' /\ Closer(d, L)'
  <2>1. Linking(d)' => after'[d] \in WithHead(L)
    BY <1>1, <1>3 DEF InChain, Chained, Adder
  <2>2. listPc'[d] = "publish" => next'[node[d]] = after'[d] /\ prev'[node[d]] = head
    <3> SUFFICES ASSUME listPc[d] = "publish" PROVE next'[node[d]] = after'[d] /\ prev'[node[d]] = head
      BY <1>2
    <3>1. /\ node[d] \in nodes \ L /\ next[node[d]] = after[d] /\ prev[node[d]] = head
      BY DEF InChain, Chained, Adder, Adding
    <3>2. node[d] # after[c] /\ node[d] \in Links
      BY <1>a, <3>1, ChainTypes DEF WithHead
    <3> QED
      BY <1>1, <1>2, <3>1, <3>2
  <2> QED
    BY <1>1, <1>3, <1>4, <2>1, <2>2, AddersKeep DEF Closer
<1>8. ~addsMet' => NoneLost(L)'
  <2> SUFFICES ASSUME ~addsMet PROVE NoneLost(L)'
    BY <1>1
  <2>1. NoneLost(L)
    BY DEF InChain, Chained
  <2>2. \A d \in Cpus : listPc[d] \notin {"free", "unnext"}
    BY <1>4 DEF Closing
  <2>3. ASSUME NEW l \in L PROVE prev'[next[l]] = l
    <3>1. prev[next[l]] = l /\ next[l] \in Links
      BY <2>1, <2>2, ChainTypes DEF NoneLost
    <3>2. next[l] # next[head]
      <4>1. CASE prev[next[head]] = head
        BY <3>1, <4>1, ChainTypes
      <4>2. CASE prev[next[head]] # head
        <5>1. \E e \in Cpus : listPc[e] \in {"new", "publish"}
          BY <4>2 DEF InChain, Chained, FirstLinked
        <5> QED
          BY <1>1, <1>a, <2>1, <5>1 DEF NoneLost, Adding
      <4> QED
        BY <4>1, <4>2
    <3>3. after[c] = next[head]
      BY <1>a, <2>1 DEF NoneLost
    <3> QED
      BY <1>2, <3>1, <3>2, <3>3
  <2>4. ASSUME NEW d \in Cpus, listPc'[d] \in {"new", "publish"} PROVE prev'[after[d]] = node[d]
    <3>1. d = c
      BY <1>a, <1>3, <2>1, <2>4 DEF NoneLost, Adding
    <3> QED
      BY <1>2, <1>a, <3>1, ChainTypes
  <2> QED
    BY <1>1, <1>3, <2>1, <2>2, <2>3, <2>4 DEF NoneLost
<1> QED
  BY <1>1, <1>b, <1>5, <1>6, <1>7, <1>8 DEF InChain, Chained

\* The pointers of the new node itself.
LEMMA NewLinksKeeps ==
  ASSUME NEW L, NEW r, InChain(L, r), NEW c \in Cpus, NewLinks(c), ~closeMet'
  PROVE  ~oops' /\ L \in SUBSET nodes' /\ Chained(L, r)'
<1>1. /\ listPc[c] = "new" /\ listPc' = [listPc EXCEPT ![c] = "publish"]
      /\ next' = [next EXCEPT ![node[c]] = after[c]]
      /\ prev' = [prev EXCEPT ![node[c]] = head]
      /\ oops' = (node[c] \in Nodes \ nodes)
      /\ UNCHANGED <<nodes, pages, node, temp, before, after, addsMet>>
  BY DEF NewLinks, LinkNew, Uses, ListGoto, allocVars, localVars, metVars
<1>a. node[c] \in nodes \ L /\ after[c] \in WithHead(L) /\ Adding(c) /\ Linking(c)
  BY <1>1 DEF InChain, Chained, Adder, Linking, Adding
<1>b. ~oops'
  BY <1>1, <1>a
<1>c. \A l \in WithHead(L) : l # node[c] /\ l \in Links
  BY <1>a, ChainTypes DEF WithHead
<1>2. /\ \A d \in Cpus : listPc'[d] = IF d = c THEN "publish" ELSE listPc[d]
      /\ \A l \in Links : next'[l] = IF l = node[c] THEN after[c] ELSE next[l]
      /\ \A l \in Links : prev'[l] = IF l = node[c] THEN head ELSE prev[l]
  BY <1>1, ChainTypes
<1>d. \A l \in WithHead(L) : next'[l] = next[l] /\ prev'[l] = prev[l] /\ next[l] \in WithHead(L)
  BY <1>2, <1>c, ChainTypes
<1>3. \A d \in Cpus : (Adding(d)' <=> Adding(d)) /\ (Linking(d)' <=> Linking(d))
  BY <1>1, <1>2 DEF Adding, Linking
<1>4. \A d \in Cpus : ~Closing(d) /\ ~Closing(d)' /\ ~PageGone(d) /\ ~PageGone(d)'
  BY <1>1, <1>2, <1>a, NoneCloses DEF Closing, PageGone
<1>5. Ranked(L, r)' /\ PagesMatch' /\ next'[head] = next[head]
  BY <1>1, <1>4, <1>d DEF InChain, Chained, Ranked, PagesMatch, WithHead
<1>6. FirstLinked'
  <2>1. prev'[next[head]] = prev[next[head]]
    BY <1>d, ChainTypes
  <2>2. \A d \in Cpus : listPc[d] \in {"new", "publish"} => listPc'[d] \in {"new", "publish"}
    BY <1>2
  <2> QED
    BY <1>1, <1>5, <2>1, <2>2 DEF InChain, Chained, FirstLinked
<1>7. ASSUME NEW d \in Cpus PROVE Adder(d, L)' /\ Closer(d, L)'
  <2>1. Linking(d)' => after'[d] \in WithHead(L)
    BY <1>1, <1>3 DEF InChain, Chained, Adder
  <2>2. listPc'[d] = "publish" => next'[node[d]] = after'[d] /\ prev'[node[d]] = head
    <3>1. CASE d = c
      BY <1>1, <1>2, <1>a, <3>1, ChainTypes
    <3>2. CASE d # c /\ listPc'[d] = "publish"
      <4>1. /\ Adding(d) /\ node[d] \in nodes \ L
            /\ next[node[d]] = after[d] /\ prev[node[d]] = head
        BY <1>2, <3>2 DEF InChain, Chained, Adder, Adding
      <4>2. node[d] # node[c]
        BY <1>a, <3>2, <4>1 DEF InChain, Chained, Adder
      <4> QED
        BY <1>1, <1>2, <4>1, <4>2, ChainTypes
    <3> QED
      BY <3>1, <3>2
  <2> QED
    BY <1>1, <1>3, <1>4, <2>1, <2>2, AddersKeep DEF Closer
<1>8. ~addsMet' => NoneLost(L)'
  <2> SUFFICES ASSUME ~addsMet PROVE NoneLost(L)'
    BY <1>1
  <2>1. NoneLost(L)
    BY DEF InChain, Chained
  <2>2. \A d \in Cpus : listPc[d] \notin {"free", "unnext"}
    BY <1>4 DEF Closing
  <2>3. \A l \in L : prev'[next'[l]] = l
    BY <1>d, <2>1, <2>2 DEF NoneLost, WithHead
  <2>4. \A x \in L : \E l \in WithHead(L) : next'[l] = x
    BY <1>d, <2>1 DEF NoneLost
  <2>5. \A d \in Cpus : Linking(d)' => after'[d] = next'[head]
    BY <1>1, <1>3, <1>5, <2>1 DEF NoneLost
  <2>6. \A n \in nodes' \ L : \E d \in Cpus : node'[d] = n /\ Adding(d)'
    BY <1>1, <1>3, <2>1, <2>2 DEF NoneLost
  <2>7. \A d, e \in Cpus : Adding(d)' /\ Adding(e)' => d = e
    BY <1>3, <2>1 DEF NoneLost
  <2>8. ASSUME NEW d \in Cpus, listPc'[d] \in {"new", "publish"} PROVE prev'[after[d]] = node[d]
    <3>1. d = c
      BY <1>a, <1>3, <2>1, <2>8 DEF NoneLost, Adding
    <3> QED
      BY <1>1, <1>d, <1>a, <2>1, <3>1 DEF NoneLost
  <2> QED
    BY <1>1, <2>8, <2>3, <2>4, <2>5, <2>6, <2>7 DEF NoneLost, WithHead
<1> QED
  BY <1>1, <1>b, <1>5, <1>6, <1>7, <1>8 DEF InChain, Chained

\* The new node becomes the first, one higher than the one it has been linked to:
\* whatever another list_add has published in between is lost from the chain.
LEMMA PublishKeeps ==
  ASSUME NEW L, NEW r, InChain(L, r), NEW c \in Cpus, Publish(c), ~closeMet'
  PROVE  /\ ~oops'
         /\ \E M \in SUBSET nodes', s \in [Links -> Nat] : Chained(M, s)'
<1> DEFINE f == node[c]
<1>M. PICK M : M = L \cup {f}
  OBVIOUS
<1>s. PICK s : s = [r EXCEPT ![f] = r[after[c]] + 1]
  OBVIOUS
<1>1. /\ listPc[c] = "publish" /\ listPc' = [listPc EXCEPT ![c] = "idle"]
      /\ next' = [next EXCEPT ![head] = f]
      /\ node' = [node EXCEPT ![c] = head] /\ after' = [after EXCEPT ![c] = head]
      /\ UNCHANGED <<prev, nodes, pages, temp, before, oops, addsMet>>
  BY DEF Publish, ListGoto, allocVars, metVars
<1>a. /\ f \in nodes \ L /\ after[c] \in WithHead(L) /\ Adding(c) /\ Linking(c)
      /\ next[f] = after[c] /\ prev[f] = head
  BY <1>1 DEF InChain, Chained, Adder, Linking, Adding
<1>b. f \in Nodes /\ f \in Links /\ f # head /\ f \notin WithHead(L) /\ after[c] \in Links
  BY <1>a, ChainTypes, ListAssumption DEF WithHead, Links
<1>2. /\ \A d \in Cpus : listPc'[d] = IF d = c THEN "idle" ELSE listPc[d]
      /\ \A d \in Cpus : node'[d] = IF d = c THEN head ELSE node[d]
      /\ \A d \in Cpus : after'[d] = IF d = c THEN head ELSE after[d]
      /\ \A l \in Links : next'[l] = IF l = head THEN f ELSE next[l]
  BY <1>1, ChainTypes
<1>c. s \in [Links -> Nat] /\ s[f] = r[after[c]] + 1 /\ \A l \in WithHead(L) : s[l] = r[l]
  <2>1. r \in [Links -> Nat] /\ r[after[c]] + 1 \in Nat
    BY <1>b, ChainTypes
  <2> QED
    BY <1>s, <1>b, <2>1, ChainTypes
<1>d. M \subseteq nodes' /\ WithHead(M) = WithHead(L) \cup {f}
  BY <1>M, <1>1, <1>a, ChainTypes DEF WithHead
<1>3. \A d \in Cpus : /\ Adding(d)' <=> Adding(d) /\ d # c
                      /\ Linking(d)' <=> Linking(d) /\ d # c
  BY <1>1, <1>2 DEF Adding, Linking
<1>4. \A d \in Cpus : ~Closing(d) /\ ~Closing(d)' /\ ~PageGone(d) /\ ~PageGone(d)'
  BY <1>1, <1>2, <1>a, NoneCloses DEF Closing, PageGone
<1>5. Ranked(M, s)' /\ next'[head] = f
  <2>1. next'[head] = f
    BY <1>2, ChainTypes
  <2>2. ASSUME NEW l \in M PROVE next'[l] \in WithHead(M) /\ s[next'[l]] < s[l]
    <3>1. l # head /\ l \in Links
      BY <1>M, <1>b, <2>2, ChainTypes DEF WithHead
    <3>2. next'[l] = next[l]
      BY <1>2, <3>1
    <3>3. CASE l = f
      <4>1. r[after[c]] \in Nat
        BY <1>b, ChainTypes
      <4> QED
        BY <1>a, <1>c, <1>d, <3>2, <3>3, <4>1
    <3>4. CASE l \in L
      <4>1. next[l] \in WithHead(L) /\ r[next[l]] < r[l] /\ l \in WithHead(L)
        BY <3>4, ChainTypes DEF WithHead
      <4> QED
        BY <1>c, <1>d, <3>2, <4>1
    <3> QED
      BY <1>M, <3>3, <3>4
  <2> QED
    BY <1>d, <2>1, <2>2 DEF Ranked, WithHead
<1>6. FirstLinked'
  BY <1>1, <1>5, <1>a DEF FirstLinked
<1>7. PagesMatch'
  BY <1>1, <1>4 DEF InChain, Chained, PagesMatch
<1>8. ASSUME NEW d \in Cpus PROVE Adder(d, M)' /\ Closer(d, M)'
  <2>1. Adder(d, L)
    BY DEF InChain, Chained
  <2>2. ASSUME Adding(d)'
        PROVE  node'[d] \in nodes' \ M /\ \A e \in Cpus : Adding(e)' /\ node'[e] = node'[d] => e = d
    <3>1. Adding(d) /\ d # c /\ node'[d] = node[d] /\ node[d] \in nodes \ L
      BY <1>2, <1>3, <2>1, <2>2 DEF Adder
    <3>2. node[d] # f
      BY <1>a, <2>1, <3>1 DEF Adder
    <3>3. \A e \in Cpus : Adding(e)' => Adding(e) /\ node'[e] = node[e]
      BY <1>2, <1>3
    <3> QED
      BY <1>M, <1>1, <2>1, <3>1, <3>2, <3>3 DEF Adder
  <2>3. Linking(d)' => after'[d] \in WithHead(M)
    BY <1>2, <1>3, <1>d, <2>1 DEF Adder
  <2>4. listPc'[d] = "publish" => next'[node'[d]] = after'[d] /\ prev'[node'[d]] = head
    <3> SUFFICES ASSUME listPc'[d] = "publish"
                 PROVE  next'[node'[d]] = after'[d] /\ prev'[node'[d]] = head
      OBVIOUS
    <3>1. d # c /\ listPc[d] = "publish" /\ Adding(d)
      BY <1>2 DEF Adding
    <3>2. node[d] \in Nodes /\ next[node[d]] = after[d] /\ prev[node[d]] = head
      BY <2>1, <3>1, ChainTypes DEF Adder
    <3>3. node[d] # head /\ node[d] \in Links
      BY <3>2, ListAssumption DEF Links
    <3> QED
      BY <1>1, <1>2, <3>1, <3>2, <3>3
  <2>5. Closer(d, M)'
    BY <1>4 DEF Closer
  <2> QED
    BY <2>2, <2>3, <2>4, <2>5, Zenon DEF Adder, WithHead
<1>9. ~addsMet' => NoneLost(M)'
  <2> SUFFICES ASSUME ~addsMet PROVE NoneLost(M)'
    BY <1>1
  <2>1. NoneLost(L) /\ \A d \in Cpus : listPc[d] \notin {"free", "unnext"}
    BY <1>4 DEF InChain, Chained, Closing
  <2>2. \A d \in Cpus : ~Adding(d)' /\ ~Linking(d)'
    BY <1>3, <1>a, <2>1 DEF NoneLost, Adding, Linking
  <2>3. nodes \subseteq M
    BY <1>M, <1>a, <2>1 DEF NoneLost
  <2>4. after[c] = next[head]
    BY <1>a, <2>1 DEF NoneLost
  <2>5. ASSUME NEW l \in M PROVE prev'[next'[l]] = l
    <3>0. l \in Links /\ l # head
      BY <1>M, <1>b, ChainTypes DEF WithHead
    <3>1. next'[l] = next[l]
      BY <1>2, <3>0
    <3>2. CASE l = f
      BY <1>1, <1>a, <2>1, <3>1, <3>2 DEF NoneLost
    <3>3. CASE l \in L
      BY <1>1, <2>1, <3>1, <3>3 DEF NoneLost
    <3> QED
      BY <1>M, <3>2, <3>3
  <2>6. ASSUME NEW x \in M PROVE \E l \in WithHead(M) : next'[l] = x
    <3>1. CASE x = f
      BY <1>5, <3>1 DEF WithHead
    <3>2. CASE x \in L
      <4>1. PICK l \in WithHead(L) : next[l] = x
        BY <2>1, <3>2 DEF NoneLost
      <4>2. CASE l = head
        <5>1. next'[f] = x
          BY <1>2, <1>a, <1>b, <2>4, <4>1, <4>2
        <5> QED
          BY <1>d, <5>1
      <4>3. CASE l # head
        <5>1. next'[l] = x
          BY <1>2, <4>1, <4>3, ChainTypes
        <5> QED
          BY <1>d, <4>1, <5>1
      <4> QED
        BY <4>2, <4>3
    <3> QED
      BY <1>M, <3>1, <3>2
  <2>7. \A d \in Cpus : listPc'[d] \notin {"new", "publish"}
    BY <2>2 DEF Linking
  <2> QED
    BY <1>1, <2>2, <2>3, <2>5, <2>6, <2>7 DEF NoneLost, WithHead
<1> QED
  <2>1. ~oops'
    BY <1>1 DEF InChain
  <2>2. Chained(M, s)'
    BY <1>1, <1>5, <1>6, <1>7, <1>8, <1>9 DEF Chained
  <2> QED
    BY <1>c, <1>d, <2>1, <2>2

-----------------------------------------------------------------------------
(* The steps of paging_vma_close *)

\* A close that meets nobody is alone.
LEMMA AloneCloses ==
  ASSUME NEW L, NEW r, InChain(L, r), NEW c \in Cpus, Closing(c)
  PROVE  /\ \A d \in Cpus : ~Adding(d) /\ ~Linking(d)
         /\ \A d \in Cpus : d # c => listPc[d] = "idle" /\ ~Closing(d) /\ ~PageGone(d)
         /\ prev[next[head]] = head
         /\ Closer(c, L)
<1>1. Closer(c, L) /\ \A d \in Cpus : d # c => listPc[d] = "idle"
  BY DEF InChain, Chained, Closer
<1>2. \A d \in Cpus : listPc[d] \notin {"add", "next", "new", "publish"}
  BY <1>1 DEF Closing
<1> QED
  BY <1>1, <1>2 DEF InChain, Chained, FirstLinked, Adding, Linking, Closing, PageGone

\* A step of a lone close that changes no link of the list.
LEMMA LookKeeps ==
  ASSUME NEW L, NEW r, InChain(L, r), NEW c \in Cpus, UNCHANGED <<next, prev, nodes, addsMet>>,
         \A d \in Cpus : ~Adding(d) /\ ~Adding(d)' /\ ~Linking(d)',
         \A d \in Cpus : listPc[d] \notin {"unnext", "free"},
         \A d \in Cpus : d # c => listPc'[d] = "idle",
         PagesMatch', Closer(c, L)'
  PROVE  Chained(L, r)'
<1>1. prev[next[head]] = head
  BY DEF InChain, Chained, FirstLinked, Adding
<1>2. Ranked(L, r)' /\ FirstLinked'
  BY <1>1 DEF InChain, Chained, Ranked, FirstLinked
<1>3. ASSUME NEW d \in Cpus PROVE Adder(d, L)' /\ Closer(d, L)'
  <2>1. Adder(d, L)'
    <3>1. listPc'[d] # "publish"
      BY DEF Adding
    <3> QED
      BY <3>1 DEF Adder
  <2>2. CASE d # c
    <3>1. ~Closing(d)'
      BY <2>2 DEF Closing
    <3> QED
      BY <2>1, <3>1 DEF Closer
  <2> QED
    BY <2>1, <2>2
<1>4. ~addsMet => NoneLost(L)'
  <2> SUFFICES ASSUME ~addsMet PROVE NoneLost(L)'
    OBVIOUS
  <2>1. NoneLost(L)
    BY DEF InChain, Chained
  <2>2. nodes \subseteq L
    BY <2>1 DEF NoneLost
  <2>3. \A d \in Cpus : listPc'[d] \notin {"new", "publish"}
    BY DEF Adding
  <2> QED
    BY <2>1, <2>2, <2>3 DEF NoneLost
<1> QED
  BY <1>2, <1>3, <1>4 DEF Chained

\* A close that begins alone.
LEMMA BeginCloseKeeps ==
  ASSUME NEW L, NEW r, InChain(L, r), NEW c \in Cpus, BeginClose(c), ~closeMet'
  PROVE  ~oops' /\ L \in SUBSET nodes' /\ Chained(L, r)'
<1>1. /\ listPc[c] = "idle" /\ listPc' = [listPc EXCEPT ![c] = "first"]
      /\ UNCHANGED <<next, prev, nodes, pages, node, temp, before, after, oops, addsMet>>
      /\ \A d \in Cpus : ~Adding(d) /\ ~Closing(d)
  BY DEF BeginClose, Begins, ListGoto, linkVars, allocVars, localVars
<1>2. \A d \in Cpus : listPc'[d] = IF d = c THEN "first" ELSE listPc[d]
  BY <1>1, ChainTypes
<1>3. \A d \in Cpus : listPc[d] = "idle"
  <2>1. \A d \in Cpus : listPc[d] \in {"idle", "add", "next", "new", "publish", "first", "temp",
                                      "page", "unprev", "unnext", "free"}
    BY DEF InChain, ListTypeOK
  <2> QED
    BY <1>1, <2>1 DEF Adding, Closing
<1>4. \A d \in Cpus : ~Adding(d)' /\ ~Linking(d)' /\ ~PageGone(d) /\ ~PageGone(d)'
  BY <1>2, <1>3 DEF Adding, Linking, PageGone
<1>5. PagesMatch'
  BY <1>1, <1>4 DEF InChain, Chained, PagesMatch
<1>6. Closer(c, L)'
  BY <1>2, <1>3 DEF Closer, Unlinking
<1>7. Chained(L, r)'
  BY <1>1, <1>2, <1>3, <1>4, <1>5, <1>6, LookKeeps
<1> QED
  BY <1>1, <1>7 DEF InChain

\* The walk begins at the first node.
LEMMA FirstNodeKeeps ==
  ASSUME NEW L, NEW r, InChain(L, r), NEW c \in Cpus, FirstNode(c), ~closeMet'
  PROVE  ~oops' /\ L \in SUBSET nodes' /\ Chained(L, r)'
<1>1. /\ listPc[c] = "first" /\ listPc' = [listPc EXCEPT ![c] = "temp"]
      /\ node' = [node EXCEPT ![c] = next[head]]
      /\ UNCHANGED <<next, prev, nodes, pages, temp, before, after, oops, addsMet>>
  BY DEF FirstNode, ListGoto, linkVars, allocVars, metVars
<1>2. /\ \A d \in Cpus : listPc'[d] = IF d = c THEN "temp" ELSE listPc[d]
      /\ node'[c] = next[head]
  BY <1>1, ChainTypes
<1>3. /\ \A d \in Cpus : ~Adding(d) /\ ~Linking(d)
      /\ \A d \in Cpus : d # c => listPc[d] = "idle"
  BY <1>1, AloneCloses DEF Closing
<1>4. \A d \in Cpus : ~Adding(d)' /\ ~Linking(d)' /\ ~PageGone(d) /\ ~PageGone(d)'
  BY <1>1, <1>2, <1>3 DEF Adding, Linking, PageGone
<1>5. PagesMatch'
  BY <1>1, <1>4 DEF InChain, Chained, PagesMatch
<1>6. Closer(c, L)'
  BY <1>1, <1>2, <1>3 DEF Closer, Unlinking
<1>7. \A d \in Cpus : listPc[d] \notin {"unnext", "free"}
  BY <1>1, <1>3
<1>8. Chained(L, r)'
  BY <1>1, <1>2, <1>3, <1>4, <1>5, <1>6, <1>7, LookKeeps
<1> QED
  BY <1>1, <1>8 DEF InChain

\* The walk is at the first node of what is left.
LEMMA NoteTempKeeps ==
  ASSUME NEW L, NEW r, InChain(L, r), NEW c \in Cpus, NoteTemp(c), ~closeMet'
  PROVE  ~oops' /\ L \in SUBSET nodes' /\ Chained(L, r)'
<1>1. /\ listPc[c] = "temp" /\ oops' = (node[c] \in Nodes \ nodes)
      /\ \/ node[c] = head /\ listPc' = [listPc EXCEPT ![c] = "idle"]
         \/ /\ node[c] # head /\ listPc' = [listPc EXCEPT ![c] = "page"]
            /\ temp' = [temp EXCEPT ![c] = next[node[c]]]
      /\ UNCHANGED <<next, prev, nodes, pages, node, before, after, addsMet>>
  BY DEF NoteTemp, ListGoto, Uses, linkVars, allocVars, metVars
<1>2. \A d \in Cpus : d # c => listPc'[d] = listPc[d]
  BY <1>1, ChainTypes
<1>c. \/ node[c] = head /\ listPc'[c] = "idle"
      \/ node[c] # head /\ listPc'[c] = "page" /\ temp'[c] = next[node[c]]
  BY <1>1, ChainTypes
<1>3. /\ \A d \in Cpus : ~Adding(d) /\ ~Linking(d)
      /\ \A d \in Cpus : d # c => listPc[d] = "idle"
      /\ node[c] = next[head]
  BY <1>1, AloneCloses DEF Closing, Closer
<1>a. node[c] \in WithHead(L)
  BY <1>3, ChainTypes
<1>b. ~oops'
  BY <1>1, <1>a, ChainTypes, ZenonT(30) DEF WithHead
<1>4. \A d \in Cpus : ~Adding(d)' /\ ~Linking(d)' /\ ~PageGone(d) /\ ~PageGone(d)'
  BY <1>1, <1>2, <1>c, <1>3 DEF Adding, Linking, PageGone
<1>5. PagesMatch'
  BY <1>1, <1>4 DEF InChain, Chained, PagesMatch
<1>6. Closer(c, L)'
  <2>1. CASE listPc'[c] = "idle"
    BY <2>1 DEF Closer, Closing
  <2>2. CASE listPc'[c] = "page"
    <3>1. node'[c] = next'[head] /\ node'[c] \in L /\ temp'[c] = next'[node'[c]]
      BY <1>1, <1>c, <1>3, <1>a, <2>2 DEF WithHead
    <3> QED
      BY <1>2, <1>3, <2>2, <3>1 DEF Closer, Unlinking
  <2> QED
    BY <1>c, <2>1, <2>2
<1>7. \A d \in Cpus : listPc[d] \notin {"unnext", "free"}
  BY <1>1, <1>3
<1>8. Chained(L, r)'
  BY <1>1, <1>2, <1>3, <1>4, <1>5, <1>6, <1>7, LookKeeps
<1> QED
  BY <1>1, <1>b, <1>8, ChainTypes

\* The page of the first node was still there.
LEMMA FreePageKeeps ==
  ASSUME NEW L, NEW r, InChain(L, r), NEW c \in Cpus, FreePage(c), ~closeMet'
  PROVE  ~oops' /\ L \in SUBSET nodes' /\ Chained(L, r)'
<1>1. /\ listPc[c] = "page" /\ listPc' = [listPc EXCEPT ![c] = "unprev"]
      /\ oops' = (node[c] \notin nodes \cap pages)
      /\ pages' = pages \ {node[c]}
      /\ before' = [before EXCEPT ![c] = prev[node[c]]]
      /\ after' = [after EXCEPT ![c] = next[node[c]]]
      /\ UNCHANGED <<next, prev, nodes, node, temp, addsMet>>
  BY DEF FreePage, ListGoto, linkVars, metVars
<1>2. /\ \A d \in Cpus : listPc'[d] = IF d = c THEN "unprev" ELSE listPc[d]
      /\ before'[c] = prev[node[c]] /\ after'[c] = next[node[c]]
  BY <1>1, ChainTypes
<1>3. /\ \A d \in Cpus : ~Adding(d) /\ ~Linking(d)
      /\ \A d \in Cpus : d # c => listPc[d] = "idle" /\ ~PageGone(d)
      /\ node[c] = next[head] /\ node[c] \in L /\ temp[c] = next[node[c]]
      /\ prev[next[head]] = head
  BY <1>1, AloneCloses DEF Closing, Closer, Unlinking
<1>4. /\ \A d \in Cpus : ~Adding(d)' /\ ~Linking(d)' /\ ~PageGone(d)
      /\ \A d \in Cpus : PageGone(d)' <=> d = c
  BY <1>1, <1>2, <1>3 DEF Adding, Linking, PageGone
<1>a. pages = nodes
  BY <1>4 DEF InChain, Chained, PagesMatch
<1>b. ~oops'
  BY <1>1, <1>3, <1>a, ChainTypes
<1>5. PagesMatch'
  BY <1>1, <1>4, <1>a DEF PagesMatch
<1>6. Closer(c, L)'
  BY <1>1, <1>2, <1>3 DEF Closer, Unlinking
<1>7. \A d \in Cpus : listPc[d] \notin {"unnext", "free"}
  BY <1>1, <1>3
<1>8. Chained(L, r)'
  BY <1>1, <1>2, <1>3, <1>4, <1>5, <1>6, <1>7, LookKeeps
<1> QED
  BY <1>1, <1>b, <1>8, ChainTypes

\* next->prev = prev: the second node becomes one that the head may lead to.
LEMMA UnlinkPrevKeeps ==
  ASSUME NEW L, NEW r, InChain(L, r), NEW c \in Cpus, UnlinkPrev(c), ~closeMet'
  PROVE  ~oops' /\ L \in SUBSET nodes' /\ Chained(L, r)'
<1>1. /\ listPc[c] = "unprev" /\ listPc' = [listPc EXCEPT ![c] = "unnext"]
      /\ oops' = (after[c] \in Nodes \ nodes)
      /\ prev' = [prev EXCEPT ![after[c]] = before[c]]
      /\ UNCHANGED <<next, nodes, pages, node, temp, before, after, addsMet>>
  BY DEF UnlinkPrev, ListGoto, Uses, allocVars, localVars, metVars
<1>2. /\ \A d \in Cpus : listPc'[d] = IF d = c THEN "unnext" ELSE listPc[d]
      /\ \A l \in Links : prev'[l] = IF l = after[c] THEN before[c] ELSE prev[l]
  BY <1>1, ChainTypes
<1>3. /\ \A d \in Cpus : ~Adding(d) /\ ~Linking(d)
      /\ \A d \in Cpus : d # c => listPc[d] = "idle"
      /\ node[c] = next[head] /\ node[c] \in L /\ temp[c] = next[node[c]]
      /\ before[c] = head /\ after[c] = temp[c]
      /\ prev[next[head]] = head
  BY <1>1, AloneCloses DEF Closing, Closer, Unlinking
<1>4. \A d \in Cpus : ~Adding(d)' /\ ~Linking(d)' /\ (PageGone(d)' <=> PageGone(d))
  BY <1>1, <1>2, <1>3 DEF Adding, Linking, PageGone
<1>a. after[c] \in WithHead(L) /\ after[c] \in Links
  BY <1>3, ChainTypes
<1>b. ~oops'
  BY <1>1, <1>a, ChainTypes DEF WithHead
<1>c. prev'[after[c]] = head /\ prev'[next[head]] = head
  BY <1>2, <1>3, <1>a, ChainTypes
<1>5. Ranked(L, r)' /\ FirstLinked' /\ PagesMatch'
  BY <1>1, <1>4, <1>c DEF InChain, Chained, Ranked, FirstLinked, PagesMatch
<1>6. ASSUME NEW d \in Cpus PROVE Adder(d, L)' /\ Closer(d, L)'
  <2>1. Adder(d, L)'
    <3>1. listPc'[d] # "publish"
      BY <1>4 DEF Adding
    <3> QED
      BY <1>4, <3>1 DEF Adder
  <2>2. CASE d # c
    <3>1. ~Closing(d)'
      BY <1>2, <1>3, <2>2 DEF Closing
    <3> QED
      BY <2>1, <3>1 DEF Closer
  <2>3. Closer(c, L)'
    BY <1>1, <1>2, <1>3, <1>c DEF Closer, Unlinking
  <2> QED
    BY <2>1, <2>2, <2>3
<1>7. ~addsMet' => NoneLost(L)'
  <2> SUFFICES ASSUME ~addsMet PROVE NoneLost(L)'
    BY <1>1
  <2>1. NoneLost(L) /\ \A d \in Cpus : listPc[d] \notin {"unnext", "free"}
    BY <1>1, <1>3 DEF InChain, Chained
  <2>2. nodes \subseteq L
    BY <1>3, <2>1 DEF NoneLost
  <2>3. \A d \in Cpus : listPc'[d] \notin {"new", "publish"}
    BY <1>4 DEF Adding
  <2>4. ASSUME NEW l \in L, l # node[c] PROVE prev'[next[l]] = l
    <3>1. prev[next[l]] = l /\ prev[after[c]] = node[c] /\ next[l] \in Links
      BY <1>3, <2>1, ChainTypes DEF NoneLost
    <3> QED
      BY <1>2, <2>4, <3>1
  <2>5. listPc'[c] = "unnext" /\ node'[c] = node[c]
    BY <1>1, <1>2
  <2>6. \A l \in L : prev'[next'[l]] = l \/ \E d \in Cpus : listPc'[d] = "unnext" /\ node'[d] = l
    BY <1>1, <2>4, <2>5
  <2> QED
    BY <1>1, <1>4, <2>1, <2>2, <2>3, <2>6 DEF NoneLost
<1> QED
  BY <1>1, <1>b, <1>5, <1>6, <1>7, ChainTypes DEF Chained

\* list_del takes the first node out of the chain.  After list_adds that met, the
\* nodes they left badly linked may lead to it still: these go as well.
LEMMA UnlinkNextKeeps ==
  ASSUME NEW L, NEW r, InChain(L, r), NEW c \in Cpus, UnlinkNext(c), ~closeMet'
  PROVE  ~oops' /\ \E M \in SUBSET nodes' : Chained(M, r)'
<1>f. PICK f : f = node[c]
  OBVIOUS
<1>M. PICK M : M = IF addsMet THEN {n \in L : r[n] < r[f]} ELSE L \ {f}
  OBVIOUS
<1>1. /\ listPc[c] = "unnext" /\ listPc' = [listPc EXCEPT ![c] = "free"]
      /\ oops' = (before[c] \in Nodes \ nodes)
      /\ next' = [next EXCEPT ![before[c]] = after[c]]
      /\ UNCHANGED <<prev, nodes, pages, node, temp, before, after, addsMet>>
  BY DEF UnlinkNext, Unlink, ListGoto, Uses, allocVars, localVars, metVars
<1>3. /\ \A d \in Cpus : ~Adding(d) /\ ~Linking(d)
      /\ \A d \in Cpus : d # c => listPc[d] = "idle"
      /\ f = next[head] /\ f \in L /\ temp[c] = next[f]
      /\ before[c] = head /\ after[c] = temp[c] /\ prev[after[c]] = head
      /\ prev[f] = head
  BY <1>f, <1>1, AloneCloses DEF Closing, Closer, Unlinking
<1>2. /\ \A d \in Cpus : listPc'[d] = IF d = c THEN "free" ELSE listPc[d]
      /\ \A l \in Links : next'[l] = IF l = head THEN next[f] ELSE next[l]
  BY <1>1, <1>3, ChainTypes
<1>4. \A d \in Cpus : ~Adding(d)' /\ ~Linking(d)' /\ (PageGone(d)' <=> PageGone(d))
  BY <1>1, <1>2, <1>3 DEF Adding, Linking, PageGone
<1>b. ~oops'
  BY <1>1, <1>3, ChainTypes
<1>a. next[f] \in WithHead(L) /\ r[next[f]] < r[f] /\ r[f] \in Nat /\ f # head /\ f \in Links
  BY <1>3, ChainTypes DEF WithHead
<1>c. next'[head] = next[f] /\ \A l \in L : next'[l] = next[l] /\ l # head /\ l \in Links
  BY <1>2, ChainTypes DEF WithHead
<1>d. M \subseteq L /\ f \notin M
  BY <1>M, <1>a
<1>e. ASSUME ~addsMet PROVE /\ NoneLost(L) /\ M = L \ {f}
                            /\ \A l \in M : prev[next[l]] = l /\ next[l] # f
  <2>1. NoneLost(L) /\ M = L \ {f}
    BY <1>e, <1>M DEF InChain, Chained
  <2>2. ASSUME NEW l \in M PROVE prev[next[l]] = l
    <3>1. l \in L /\ l # f
      BY <1>d, <2>2
    <3>2. \A d \in Cpus : ~(listPc[d] = "unnext" /\ node[d] = l)
      BY <1>f, <1>3, <3>1
    <3> QED
      BY <2>1, <3>1, <3>2 DEF NoneLost
  <2> QED
    BY <1>3, <1>c, <1>d, <2>1, <2>2
<1>g. next[f] \in WithHead(M)
  <2>1. CASE addsMet
    BY <1>M, <1>a, <2>1 DEF WithHead
  <2>2. CASE ~addsMet
    <3>1. next[f] # f
      BY <1>a
    <3> QED
      BY <1>M, <1>a, <2>2, <3>1 DEF WithHead
  <2> QED
    BY <2>1, <2>2
<1>5. Ranked(M, r)'
  <2>1. ASSUME NEW l \in M PROVE next[l] \in WithHead(M) /\ r[next[l]] < r[l]
    <3>1. l \in L /\ next[l] \in WithHead(L) /\ r[next[l]] < r[l]
      BY <1>d, ChainTypes
    <3>2. CASE ~addsMet
      BY <1>e, <3>1, <3>2 DEF WithHead
    <3>3. CASE addsMet
      <4>0. l \in Links /\ next[l] \in Links
        BY <1>c, <3>1, ChainTypes
      <4>1. r[l] < r[f] /\ r[l] \in Nat /\ r[next[l]] \in Nat
        BY <1>M, <2>1, <3>3, <4>0, ChainTypes
      <4>2. r[next[l]] < r[f]
        BY <1>a, <3>1, <4>1
      <4> QED
        BY <1>M, <3>1, <3>3, <4>2 DEF WithHead
    <3> QED
      BY <3>2, <3>3
  <2> QED
    BY <1>c, <1>d, <1>g, <2>1 DEF Ranked, WithHead
<1>6. FirstLinked' /\ PagesMatch'
  BY <1>1, <1>3, <1>4, <1>c DEF InChain, Chained, FirstLinked, PagesMatch
<1>7. ASSUME NEW d \in Cpus PROVE Adder(d, M)' /\ Closer(d, M)'
  <2>1. Adder(d, M)'
    <3>1. listPc'[d] # "publish"
      BY <1>4 DEF Adding
    <3> QED
      BY <1>4, <3>1 DEF Adder
  <2>2. CASE d # c
    <3>1. ~Closing(d)'
      BY <1>2, <1>3, <2>2 DEF Closing
    <3> QED
      BY <2>1, <3>1 DEF Closer
  <2>3. Closer(c, M)'
    <3>1. node'[c] \in nodes' \ M /\ temp'[c] = next'[head]
      BY <1>f, <1>1, <1>3, <1>c, <1>d, ChainTypes
    <3> QED
      BY <1>1, <1>2, <1>3, <3>1 DEF Closer, Unlinking
  <2> QED
    BY <2>1, <2>2, <2>3
<1>8. ~addsMet' => NoneLost(M)'
  <2> SUFFICES ASSUME ~addsMet PROVE NoneLost(M)'
    BY <1>1
  <2>1. NoneLost(L) /\ nodes \subseteq L
    BY <1>1, <1>3, <1>e DEF NoneLost
  <2>2. listPc'[c] = "free" /\ node'[c] = f
    BY <1>f, <1>1, <1>2
  <2>3. \A n \in nodes' \ M : n = f
    BY <1>1, <1>e, <2>1
  <2>4. \A l \in M : prev'[next'[l]] = l
    BY <1>1, <1>c, <1>d, <1>e
  <2>5. ASSUME NEW x \in M PROVE \E l \in WithHead(M) : next'[l] = x
    <3>1. PICK l \in WithHead(L) : next[l] = x
      BY <1>d, <2>1 DEF NoneLost
    <3>2. l # head
      BY <1>3, <1>d, <3>1
    <3>3. CASE l = f
      BY <1>c, <3>1, <3>3 DEF WithHead
    <3>4. CASE l # f
      <4>1. l \in M /\ l \in L
        BY <1>e, <3>1, <3>2, <3>4 DEF WithHead
      <4> QED
        BY <1>c, <3>1, <4>1 DEF WithHead
    <3> QED
      BY <3>3, <3>4
  <2>6. \A d \in Cpus : listPc'[d] \notin {"new", "publish"}
    BY <1>4 DEF Adding
  <2> QED
    BY <1>4, <2>2, <2>3, <2>4, <2>5, <2>6 DEF NoneLost
<1> QED
  <2>1. M \in SUBSET nodes'
    BY <1>1, <1>d, ChainTypes
  <2>2. Chained(M, r)'
    BY <1>5, <1>6, <1>7, <1>8 DEF Chained
  <2> QED
    BY <1>b, <2>1, <2>2

\* The node freed is in no chain any more.
LEMMA KfreeKeeps ==
  ASSUME NEW L, NEW r, InChain(L, r), NEW c \in Cpus, KfreeNode(c), ~closeMet'
  PROVE  ~oops' /\ L \in SUBSET nodes' /\ Chained(L, r)'
<1>f. PICK f : f = node[c]
  OBVIOUS
<1>1. /\ listPc[c] = "free" /\ listPc' = [listPc EXCEPT ![c] = "temp"]
      /\ oops' = (f \in Nodes \ nodes)
      /\ nodes' = nodes \ {f}
      /\ next' = [next EXCEPT ![f] = head] /\ prev' = [prev EXCEPT ![f] = head]
      /\ node' = [node EXCEPT ![c] = temp[c]]
      /\ UNCHANGED <<pages, temp, addsMet>>
  BY <1>f DEF KfreeNode, ListGoto, Uses, metVars
<1>3. /\ \A d \in Cpus : ~Adding(d) /\ ~Linking(d)
      /\ \A d \in Cpus : d # c => listPc[d] = "idle" /\ ~PageGone(d)
      /\ f \in nodes \ L /\ temp[c] = next[head]
      /\ prev[next[head]] = head
  BY <1>f, <1>1, AloneCloses DEF Closing, Closer
<1>a. f # head /\ f \in Links /\ \A l \in WithHead(L) : l # f /\ l \in Links
  BY <1>3, ChainTypes, ListAssumption DEF WithHead, Links
<1>2. /\ \A d \in Cpus : listPc'[d] = IF d = c THEN "temp" ELSE listPc[d]
      /\ \A l \in WithHead(L) : next'[l] = next[l] /\ prev'[l] = prev[l]
      /\ node'[c] = next[head]
  BY <1>1, <1>3, <1>a, ChainTypes
<1>4. \A d \in Cpus : ~Adding(d)' /\ ~Linking(d)' /\ (PageGone(d) <=> d = c) /\ ~PageGone(d)'
  BY <1>1, <1>2, <1>3 DEF Adding, Linking, PageGone
<1>b. ~oops' /\ L \subseteq nodes'
  BY <1>1, <1>3, ChainTypes
<1>c. next'[head] = next[head] /\ prev'[next[head]] = head
  BY <1>2, <1>3, ChainTypes DEF WithHead
<1>5. Ranked(L, r)' /\ FirstLinked'
  BY <1>2, <1>c, ChainTypes DEF Ranked, FirstLinked, WithHead
<1>6. PagesMatch'
  BY <1>f, <1>1, <1>4 DEF InChain, Chained, PagesMatch
<1>7. ASSUME NEW d \in Cpus PROVE Adder(d, L)' /\ Closer(d, L)'
  <2>1. Adder(d, L)'
    <3>1. listPc'[d] # "publish"
      BY <1>4 DEF Adding
    <3> QED
      BY <1>4, <3>1 DEF Adder
  <2>2. CASE d # c
    <3>1. ~Closing(d)'
      BY <1>2, <1>3, <2>2 DEF Closing
    <3> QED
      BY <2>1, <3>1 DEF Closer
  <2>3. Closer(c, L)'
    BY <1>2, <1>3, <1>c DEF Closer, Unlinking
  <2> QED
    BY <2>1, <2>2, <2>3
<1>8. ~addsMet' => NoneLost(L)'
  <2> SUFFICES ASSUME ~addsMet PROVE NoneLost(L)'
    BY <1>1
  <2>1. NoneLost(L)
    BY DEF InChain, Chained
  <2>2. \A n \in nodes \ L : n = f
    BY <1>f, <1>3, <2>1 DEF NoneLost
  <2>3. nodes' \subseteq L
    BY <1>1, <2>2
  <2>4. \A d \in Cpus : listPc[d] # "unnext" /\ listPc'[d] \notin {"new", "publish"}
    BY <1>1, <1>3, <1>4 DEF Adding
  <2>5. \A l \in L : prev'[next'[l]] = l
    BY <1>2, <2>1, <2>4, ChainTypes DEF NoneLost, WithHead
  <2>6. \A x \in L : \E l \in WithHead(L) : next'[l] = x
    BY <1>2, <2>1 DEF NoneLost
  <2> QED
    BY <1>4, <2>3, <2>4, <2>5, <2>6 DEF NoneLost, WithHead
<1> QED
  BY <1>b, <1>5, <1>6, <1>7, <1>8 DEF Chained

-----------------------------------------------------------------------------
\* The empty list is a chain.
LEMMA ListInitial ==
  ListInit => ListIInv
<1> SUFFICES ASSUME ListInit PROVE ListIInv
  OBVIOUS
<1>1. /\ next = [l \in Links |-> head] /\ prev = [l \in Links |-> head]
      /\ nodes = {} /\ pages = {} /\ head \in Links
      /\ next[head] = head /\ prev[head] = head
      /\ \A c \in Cpus : listPc[c] = "idle"
  BY DEF ListInit, Links
<1>2. ListTypeOK
  <2>1. {next, prev} \subseteq [Links -> Links]
    BY <1>1
  <2>2. {node, temp, before, after} \subseteq [Cpus -> Links]
    BY <1>1 DEF ListInit
  <2> QED
    BY <1>1, <2>1, <2>2 DEF ListInit, ListTypeOK
<1>3. PICK r : r = [l \in Links |-> 0]
  OBVIOUS
<1>4. Ranked({}, r) /\ FirstLinked /\ PagesMatch
  BY <1>1 DEF Ranked, WithHead, FirstLinked, PagesMatch, PageGone
<1>5. \A c \in Cpus : Adder(c, {}) /\ Closer(c, {})
  BY <1>1 DEF Adder, Closer, Adding, Linking, Closing
<1>6. NoneLost({})
  BY <1>1 DEF NoneLost, Adding, Linking
<1>7. Chained({}, r) /\ {} \in SUBSET nodes /\ r \in [Links -> Nat]
  BY <1>3, <1>4, <1>5, <1>6 DEF Chained
<1>8. ~oops /\ \E L \in SUBSET nodes, s \in [Links -> Nat] : Chained(L, s)
  BY <1>7 DEF ListInit
<1> QED
  BY <1>2, <1>8 DEF ListIInv

\* The inductive step: the chain of each action, and closeMet stays.
LEMMA ListStep ==
  ListIInv /\ [ListNext]_listVars => ListIInv'
<1> SUFFICES ASSUME ListIInv, [ListNext]_listVars PROVE ListIInv'
  OBVIOUS
<1>1. ListTypeOK'
  BY ListTypeStep DEF ListIInv
<1>2. SUFFICES ASSUME ~closeMet'
               PROVE  ~oops' /\ \E M \in SUBSET nodes', s \in [Links -> Nat] : Chained(M, s)'
  BY <1>1 DEF ListIInv
<1>3. ~closeMet /\ closeMet \in BOOLEAN
  <2>1. CASE UNCHANGED listVars
    BY <1>2, <2>1 DEF listVars, metVars, ListIInv, ListTypeOK
  <2>2. ASSUME NEW c \in Cpus, KmallocNode(c) \/ BeginClose(c) PROVE ~closeMet
    BY <1>2, <2>2 DEF KmallocNode, BeginClose
  <2>3. ASSUME NEW c \in Cpus, LoadHead(c) \/ NextPrev(c) \/ NewLinks(c) \/ Publish(c)
        PROVE  ~closeMet
    BY <1>2, <2>3 DEF LoadHead, NextPrev, NewLinks, Publish, metVars
  <2>4. ASSUME NEW c \in Cpus, FirstNode(c) \/ NoteTemp(c) \/ FreePage(c) \/ UnlinkPrev(c)
                               \/ UnlinkNext(c) \/ KfreeNode(c)
        PROVE  ~closeMet
    BY <1>2, <2>4 DEF FirstNode, NoteTemp, FreePage, UnlinkPrev, UnlinkNext, KfreeNode, metVars
  <2> QED
    BY <2>1, <2>2, <2>3, <2>4 DEF ListNext, ListIInv, ListTypeOK
<1>4. PICK L \in SUBSET nodes, r \in [Links -> Nat] : Chained(L, r)
  BY <1>3 DEF ListIInv
<1>5. InChain(L, r)
  BY <1>3, <1>4 DEF InChain, ListIInv
<1>6. ASSUME ~oops' /\ L \in SUBSET nodes' /\ Chained(L, r)'
      PROVE  ~oops' /\ \E M \in SUBSET nodes', s \in [Links -> Nat] : Chained(M, s)'
  BY <1>4, <1>6
<1>7. CASE UNCHANGED listVars
  <2>1. Chained(L, r)' <=> Chained(L, r)
    BY <1>7 DEF listVars, linkVars, allocVars, localVars, metVars, Chained, Ranked, FirstLinked,
       PagesMatch, PageGone, Adder, Adding, Linking, Closer, Closing, Unlinking, NoneLost
  <2> QED
    BY <1>4, <1>5, <1>6, <1>7, <2>1 DEF listVars, allocVars, InChain
<1>8. ASSUME NEW c \in Cpus, KmallocNode(c) \/ LoadHead(c) \/ NextPrev(c) \/ NewLinks(c)
      PROVE  ~oops' /\ L \in SUBSET nodes' /\ Chained(L, r)'
  BY <1>2, <1>5, <1>8, KmallocKeeps, LoadKeeps, NextPrevKeeps, NewLinksKeeps
<1>9. ASSUME NEW c \in Cpus, BeginClose(c) \/ FirstNode(c) \/ NoteTemp(c) \/ FreePage(c)
                             \/ UnlinkPrev(c) \/ KfreeNode(c)
      PROVE  ~oops' /\ L \in SUBSET nodes' /\ Chained(L, r)'
  BY <1>2, <1>5, <1>9, BeginCloseKeeps, FirstNodeKeeps, NoteTempKeeps, FreePageKeeps,
     UnlinkPrevKeeps, KfreeKeeps
<1>10. ASSUME NEW c \in Cpus, Publish(c)
       PROVE  ~oops' /\ \E M \in SUBSET nodes', s \in [Links -> Nat] : Chained(M, s)'
  BY <1>2, <1>5, <1>10, PublishKeeps
<1>11. ASSUME NEW c \in Cpus, UnlinkNext(c)
       PROVE  ~oops' /\ \E M \in SUBSET nodes', s \in [Links -> Nat] : Chained(M, s)'
  <2>1. ~oops' /\ \E M \in SUBSET nodes' : Chained(M, r)'
    BY <1>2, <1>5, <1>11, UnlinkNextKeeps
  <2> QED
    BY <1>4, <2>1
<1> QED
  BY <1>6, <1>7, <1>8, <1>9, <1>10, <1>11 DEF ListNext

\* In the middle of every operation on the list of paging.c, and whatever
\* list_adds have met, a chain of allocated nodes leads from the head back to it,
\* as long as no close has met another operation.
THEOREM ListInductive ==
  ListSpec => []ListIInv
BY ListInitial, ListStep, PTL DEF ListSpec

\* The list's pointers stay within its nodes and its head.
THEOREM ListTypeCorrect == ListSpec => []ListTypeOK
<1>1. ListIInv => ListTypeOK
  BY DEF ListIInv
<1> QED
  BY <1>1, ListInductive, PTL

-----------------------------------------------------------------------------
(* The walk *)

\* The step of a walk, and a walk of k steps.
Follow(l) == IF l = head THEN head ELSE next[l]
Walks(w, k) ==
  w \in [0..k -> Links] /\ w[0] = next[head] /\ \A i \in 1..k : w[i] = Follow(w[i - 1])

\* There is a walk of every length.
LEMMA WalkExists ==
  ASSUME next \in [Links -> Links], NEW k \in Nat PROVE \E w : Walks(w, k)
<1> DEFINE S == {n \in Nat : \E w : Walks(w, n)}
<1>1. head \in Links
  BY DEF Links
<1>2. 0 \in S
  <2>1. [i \in 0..0 |-> next[head]] \in [0..0 -> Links]
    BY <1>1
  <2>2. Walks([i \in 0..0 |-> next[head]], 0)
    BY <2>1 DEF Walks
  <2> QED
    BY <2>2
<1>3. ASSUME NEW n \in S PROVE n + 1 \in S
  <2>1. PICK w : Walks(w, n)
    OBVIOUS
  <2>2. PICK v : v = [i \in 0..n + 1 |-> IF i <= n THEN w[i] ELSE Follow(w[n])]
    OBVIOUS
  <2>3. n \in Nat /\ n \in 0..n /\ w \in [0..n -> Links]
    BY <2>1 DEF Walks
  <2>4. \A l \in Links : Follow(l) \in Links
    BY <1>1 DEF Follow
  <2>5. v \in [0..n + 1 -> Links]
    BY <2>2, <2>3, <2>4
  <2>6. v[0] = next[head]
    BY <2>1, <2>2, <2>3 DEF Walks
  <2>7. ASSUME NEW i \in 1..n + 1 PROVE v[i] = Follow(v[i - 1])
    <3>1. v[i - 1] = w[i - 1]
      BY <2>2, <2>3
    <3>2. CASE i <= n
      <4>1. v[i] = w[i] /\ w[i] = Follow(w[i - 1])
        BY <2>1, <2>2, <2>3, <3>2 DEF Walks
      <4> QED
        BY <3>1, <4>1
    <3>3. CASE i = n + 1
      BY <2>2, <2>3, <3>1, <3>3
    <3> QED
      BY <2>3, <3>2, <3>3
  <2>8. Walks(v, n + 1)
    BY <2>5, <2>6, <2>7 DEF Walks
  <2> QED
    BY <2>3, <2>8
<1>4. S = Nat
  BY <1>2, <1>3, SetInd
<1> QED
  BY <1>4

\* The recursion of Walk.
LEMMA WalkIsWalk ==
  ASSUME next \in [Links -> Links] PROVE Walks(Walk, Cardinality(Nodes))
<1>1. Cardinality(Nodes) \in Nat
  BY ListAssumption, FS_CardinalityType
<1>2. PICK w : Walks(w, Cardinality(Nodes))
  BY <1>1, WalkExists
<1>3. w = [k \in 0..Cardinality(Nodes) |-> IF k = 0 THEN next[head]
                                          ELSE IF w[k - 1] = head THEN head ELSE next[w[k - 1]]]
  BY <1>1, <1>2 DEF Walks, Follow
<1>4. Walk = [k \in 0..Cardinality(Nodes) |-> IF k = 0 THEN next[head]
                                   ELSE IF Walk[k - 1] = head THEN head ELSE next[Walk[k - 1]]]
  BY <1>3, Zenon DEF Walk
<1>5. /\ Walk[0] = next[head]
      /\ \A k \in 1..Cardinality(Nodes) : Walk[k] = Follow(Walk[k - 1])
  BY <1>1, <1>4 DEF Follow
<1> DEFINE S == {n \in Nat : n <= Cardinality(Nodes) => Walk[n] \in Links}
<1>6. 0 \in S
  BY <1>5 DEF Links
<1>7. ASSUME NEW n \in S PROVE n + 1 \in S
  BY <1>1, <1>5 DEF Follow, Links
<1>8. S = Nat
  BY <1>6, <1>7, SetInd
<1>9. \A k \in 0..Cardinality(Nodes) : Walk[k] \in Links
  BY <1>1, <1>8
<1>10. Walk \in [0..Cardinality(Nodes) -> Links]
  BY <1>4, <1>9, Zenon
<1> QED
  BY <1>5, <1>10 DEF Walks

\* A finite set has an element of highest rank.
LEMMA HighestRank ==
  ASSUME NEW S, IsFiniteSet(S), S # {}, NEW r, \A x \in S : r[x] \in Nat
  PROVE  \E x \in S : \A y \in S : r[y] <= r[x]
<1> DEFINE Has(T) == \E x \in T : \A y \in T : r[y] <= r[x]
<1> DEFINE B == {n \in Nat : \A T \in SUBSET S : T # {} /\ Cardinality(T) = n => Has(T)}
<1>1. 0 \in B
  BY FS_Subset, FS_EmptySet
<1>2. ASSUME NEW n \in B PROVE n + 1 \in B
  <2> SUFFICES ASSUME NEW T \in SUBSET S, T # {}, Cardinality(T) = n + 1 PROVE Has(T)
    OBVIOUS
  <2>1. PICK a \in T : TRUE
    OBVIOUS
  <2>2. IsFiniteSet(T)
    BY FS_Subset
  <2>3. Cardinality(T \ {a}) = n
    <3>1. n \in Nat /\ (n + 1) - 1 = n
      OBVIOUS
    <3>2. Cardinality(T \ {a}) = Cardinality(T) - 1
      BY <2>2, FS_RemoveElement
    <3> QED
      BY <3>1, <3>2
  <2>4. CASE T \ {a} = {}
    <3>1. T = {a} /\ r[a] \in Nat
      BY <2>4
    <3> QED
      BY <3>1
  <2>5. CASE T \ {a} # {}
    <3>1. PICK x \in T \ {a} : \A y \in T \ {a} : r[y] <= r[x]
      BY <2>3, <2>5
    <3>2. r[x] \in Nat /\ r[a] \in Nat /\ \A y \in T : r[y] \in Nat
      OBVIOUS
    <3>3. CASE r[a] <= r[x]
      BY <3>1, <3>3
    <3>4. CASE r[x] < r[a]
      <4>1. ASSUME NEW y \in T PROVE r[y] <= r[a]
        <5>1. CASE y = a
          BY <3>2, <5>1
        <5>2. CASE y # a
          <6>1. r[y] <= r[x] /\ r[y] \in Nat
            BY <3>1, <3>2, <5>2
          <6> QED
            BY <3>2, <3>4, <6>1
        <5> QED
          BY <5>1, <5>2
      <4> QED
        BY <4>1
    <3> QED
      BY <3>2, <3>3, <3>4
  <2> QED
    BY <2>4, <2>5
<1>3. B = Nat
  BY <1>1, <1>2, SetInd
<1>4. Cardinality(S) \in B
  BY <1>3, FS_CardinalityType
<1> QED
  BY <1>4

\* A walk stays in the chain, goes down in rank and therefore comes back to the
\* head.
LEMMA WalkGoesDown ==
  ASSUME NEW L, NEW r, InChain(L, r)
  PROVE  /\ \A k \in 0..Cardinality(Nodes) : Walk[k] \in WithHead(L)
         /\ Walk[Cardinality(Nodes)] = head
         /\ \A k, i \in 0..Cardinality(Nodes) :
              Walk[k] # head /\ i < k => r[Walk[k]] < r[Walk[i]]
<1>N. PICK N : N = Cardinality(Nodes)
  OBVIOUS
<1>w. PICK w : w = Walk
  OBVIOUS
<1>0. N \in Nat /\ L \subseteq Nodes /\ head \notin L
  BY <1>N, ListAssumption, FS_CardinalityType, ChainTypes
<1>1. w \in [0..N -> Links] /\ w[0] = next[head] /\ \A i \in 1..N : w[i] = Follow(w[i - 1])
  BY <1>N, <1>w, ChainTypes, WalkIsWalk DEF Walks
<1> DEFINE
      Down(k) == /\ w[k] \in WithHead(L)
                 /\ w[k] # head => \A i \in 0..k : w[i] # head /\ (i < k => r[w[k]] < r[w[i]])
      S == {k \in Nat : k <= N => Down(k)}
<1>2. 0 \in S
  <2>1. w[0] \in WithHead(L)
    BY <1>1, ChainTypes
  <2> QED
    BY <2>1
<1>3. ASSUME NEW n \in S PROVE n + 1 \in S
  <2> SUFFICES ASSUME n + 1 <= N PROVE Down(n + 1)
    OBVIOUS
  <2>0. n \in Nat /\ n \in 0..N /\ n + 1 \in 0..N
    BY <1>0
  <2>1. Down(n) /\ w[n + 1] = Follow(w[n])
    BY <1>0, <1>1, <2>0
  <2>2. w[n + 1] \in WithHead(L)
    BY <2>1, ChainTypes DEF Follow, WithHead
  <2>3. ASSUME w[n + 1] # head, NEW i \in 0..n + 1
        PROVE  w[i] # head /\ (i < n + 1 => r[w[n + 1]] < r[w[i]])
    <3>1. w[n] # head /\ w[n + 1] = next[w[n]] /\ w[n] \in L
      BY <2>1, <2>3 DEF Follow, WithHead
    <3>2. r[w[n + 1]] < r[w[n]]
      BY <3>1, ChainTypes
    <3>3. CASE i = n + 1
      BY <2>3, <3>3
    <3>4. CASE i = n
      BY <3>1, <3>2, <3>4
    <3>5. CASE i < n
      <4>1. i \in 0..n /\ i \in 0..N
        BY <1>0, <2>0, <2>3, <3>5
      <4>2. w[i] # head /\ r[w[n]] < r[w[i]]
        BY <2>1, <3>1, <3>5, <4>1
      <4>3. r[w[i]] \in Nat /\ r[w[n]] \in Nat /\ r[w[n + 1]] \in Nat
        BY <1>1, <2>0, <4>1, ChainTypes
      <4> QED
        BY <3>2, <4>2, <4>3
    <3> QED
      BY <2>0, <3>3, <3>4, <3>5
  <2> QED
    BY <2>2, <2>3
<1>4. \A k \in 0..N : Down(k)
  <2>1. S = Nat
    BY <1>2, <1>3, SetInd
  <2>2. ASSUME NEW k \in 0..N PROVE Down(k)
    <3>1. k \in S /\ k <= N
      BY <1>0, <2>1
    <3> QED
      BY <3>1
  <2> QED
    BY <2>2
<1>5. w[N] = head
  <2> SUFFICES ASSUME w[N] # head PROVE FALSE
    OBVIOUS
  <2>1. ASSUME NEW i \in 0..N PROVE w[i] \in Nodes
    BY <1>0, <1>4 DEF WithHead
  <2>2. w \in [0..N -> Nodes]
    BY <1>1, <2>1
  <2>3. IsFiniteSet(0..N) /\ Cardinality(0..N) = N + 1
    BY <1>0, FS_Interval
  <2>4. PICK i, j \in 0..N : i # j /\ w[i] = w[j]
    BY <1>N, <1>0, <2>2, <2>3, ListAssumption, FS_PigeonHole
  <2>5. ASSUME NEW x \in 0..N, NEW y \in 0..N, x < y, w[x] = w[y] PROVE FALSE
    <3>1. w[y] # head
      BY <1>0, <1>4
    <3>2. r[w[y]] < r[w[x]]
      BY <1>4, <2>5, <3>1
    <3>3. r[w[y]] \in Nat
      BY <1>1, ChainTypes
    <3> QED
      BY <2>5, <3>2, <3>3
  <2> QED
    BY <1>0, <2>4, <2>5
<1>6. \A k, i \in 0..N : w[k] # head /\ i < k => r[w[k]] < r[w[i]]
  <2> SUFFICES ASSUME NEW k \in 0..N, NEW i \in 0..N, w[k] # head, i < k
               PROVE  r[w[k]] < r[w[i]]
    OBVIOUS
  <2>1. i \in 0..k
    BY <1>0
  <2> QED
    BY <1>4, <2>1
<1> QED
  BY <1>N, <1>w, <1>4, <1>5, <1>6

\* With every node reached from another one or from the head, a walk sees all.
LEMMA WalkSeesAll ==
  ASSUME NEW L, NEW r, InChain(L, r), \A x \in L : \E l \in WithHead(L) : next[l] = x
  PROVE  Listed = L
<1>N. PICK N : N = Cardinality(Nodes)
  OBVIOUS
<1>w. PICK w : w = Walk
  OBVIOUS
<1>0. N \in Nat /\ L \subseteq Nodes /\ head \notin L /\ IsFiniteSet(L)
  BY <1>N, ListAssumption, FS_CardinalityType, FS_Subset, ChainTypes
<1>1. w \in [0..N -> Links] /\ w[0] = next[head] /\ \A i \in 1..N : w[i] = Follow(w[i - 1])
  BY <1>N, <1>w, ChainTypes, WalkIsWalk DEF Walks
<1>2. Listed = {w[k] : k \in 0..N} \ {head}
  BY <1>w, <1>1 DEF Listed
<1>3. w[N] = head /\ \A k \in 0..N : w[k] \in WithHead(L)
  BY <1>N, <1>w, WalkGoesDown
<1>4. Listed \subseteq L
  BY <1>2, <1>3 DEF WithHead
<1>5. ASSUME NEW x \in L \ Listed PROVE \E l \in L \ Listed : r[x] < r[l]
  <2>1. PICK l \in WithHead(L) : next[l] = x
    OBVIOUS
  <2>2. l # head
    <3> SUFFICES ASSUME l = head PROVE FALSE
      OBVIOUS
    <3>1. x = w[0] /\ 0 \in 0..N /\ x # head
      BY <1>0, <1>1, <2>1
    <3> QED
      BY <1>2, <3>1
  <2>3. l \in L /\ r[x] < r[l]
    BY <2>1, <2>2, ChainTypes DEF WithHead
  <2>4. l \notin Listed
    <3> SUFFICES ASSUME l \in Listed PROVE FALSE
      OBVIOUS
    <3>1. PICK k \in 0..N : l = w[k]
      BY <1>2
    <3>2. k # N /\ k + 1 \in 1..N /\ k + 1 \in 0..N /\ (k + 1) - 1 = k
      BY <1>0, <1>3, <2>2, <3>1
    <3>3. w[k + 1] = Follow(w[(k + 1) - 1])
      BY <1>1, <3>2
    <3>4. w[k + 1] = x /\ x # head
      BY <1>0, <2>1, <2>2, <3>1, <3>2, <3>3 DEF Follow
    <3> QED
      BY <1>2, <3>2, <3>4
  <2> QED
    BY <2>3, <2>4
<1>6. L \ Listed = {}
  <2> SUFFICES ASSUME L \ Listed # {} PROVE FALSE
    OBVIOUS
  <2>1. IsFiniteSet(L \ Listed) /\ \A x \in L \ Listed : r[x] \in Nat
    BY <1>0, FS_Subset, ChainTypes DEF WithHead
  <2>2. PICK x \in L \ Listed : \A y \in L \ Listed : r[y] <= r[x]
    BY <2>1, HighestRank
  <2>3. PICK l \in L \ Listed : r[x] < r[l]
    BY <1>5
  <2> QED
    BY <2>1, <2>2, <2>3
<1> QED
  BY <1>4, <1>6

\* The invariant has what ListWhole says of a walk.
LEMMA ListIsSafe ==
  ASSUME ListIInv PROVE ListWhole
<1> SUFFICES ASSUME ~closeMet PROVE
      /\ ~oops
      /\ Walk[Cardinality(Nodes)] = head /\ Listed \subseteq nodes
      /\ ~addsMet /\ (\A c \in Cpus : listPc[c] = "idle") =>
           /\ nodes = Listed /\ pages = Listed
           /\ \A l \in Listed \cup {head} : prev[next[l]] = l
  BY DEF ListWhole
<1>1. PICK L \in SUBSET nodes, r \in [Links -> Nat] : Chained(L, r)
  BY DEF ListIInv
<1>2. InChain(L, r)
  BY <1>1 DEF InChain, ListIInv
<1>3. Walk[Cardinality(Nodes)] = head /\ Listed \subseteq nodes
  <2>1. DOMAIN Walk = 0..Cardinality(Nodes)
    BY <1>2, ChainTypes, WalkIsWalk DEF Walks
  <2> QED
    BY <1>2, <2>1, WalkGoesDown DEF Listed, WithHead
<1>4. ASSUME ~addsMet, \A c \in Cpus : listPc[c] = "idle"
      PROVE  nodes = Listed /\ pages = Listed /\ \A l \in Listed \cup {head} : prev[next[l]] = l
  <2>1. NoneLost(L) /\ FirstLinked /\ PagesMatch
    BY <1>1, <1>4 DEF Chained
  <2>2. Listed = L
    BY <1>2, <2>1, WalkSeesAll DEF NoneLost
  <2>3. nodes = L
    BY <1>4, <2>1 DEF NoneLost, Adding
  <2>4. pages = nodes
    BY <1>4, <2>1 DEF PagesMatch, PageGone
  <2>5. prev[next[head]] = head /\ \A l \in L : prev[next[l]] = l
    BY <1>4, <2>1 DEF NoneLost, FirstLinked
  <2> QED
    BY <2>2, <2>3, <2>4, <2>5
<1> QED
  BY <1>2, <1>3, <1>4 DEF InChain

\* paging.c's list without a lock, as long as no close meets another operation: no
\* freed node is used and no page freed twice, a walk ends and sees allocated
\* nodes only, and without list_adds that meet none is lost.
THEOREM ListIsWhole ==
  ListSpec => []ListWhole
BY ListInductive, ListIsSafe, PTL

-----------------------------------------------------------------------------
(* What a step makes of the walk *)

\* What the invariant says of the list, as a formula that holds in every state.
LEMMA ListIsSafeAlways ==
  /\ (ListIInv => ListWhole)
  /\ (next \in [Links -> Links] => Walks(Walk, Cardinality(Nodes)))
BY ListIsSafe, WalkIsWalk

\* The same of the state after a step.
LEMMA ListIsSafeNext ==
  /\ (ListIInv => ListWhole)'
  /\ (next \in [Links -> Links] => Walks(Walk, Cardinality(Nodes)))'
BY ListIsSafeAlways, PTL

\* The walk in its two forms: a sequence of N + 1 links, and the set Listed.
LEMMA WalkFacts ==
  ASSUME next \in [Links -> Links], NEW N, N = Cardinality(Nodes), NEW w, w = Walk
  PROVE  /\ N \in Nat /\ w \in [0..N -> Links] /\ w[0] = next[head]
         /\ \A i \in 1..N : w[i] = Follow(w[i - 1])
         /\ Listed = {w[k] : k \in 0..N} \ {head}
<1>1. N \in Nat
  BY ListAssumption, FS_CardinalityType
<1>2. Walks(w, N)
  BY WalkIsWalk
<1> QED
  BY <1>1, <1>2 DEF Walks, Listed

\* The same of the walk after a step.
LEMMA WalkFactsNext ==
  ASSUME (next \in [Links -> Links])', NEW N, N = Cardinality(Nodes), NEW w, w = Walk'
  PROVE  /\ N \in Nat /\ w \in [0..N -> Links] /\ w[0] = next'[head]
         /\ \A i \in 1..N : w[i] = IF w[i - 1] = head THEN head ELSE next'[w[i - 1]]
         /\ Listed' = {w[k] : k \in 0..N} \ {head}
<1>1. N \in Nat
  BY ListAssumption, FS_CardinalityType
<1>2. Walks(Walk, Cardinality(Nodes))'
  BY ListIsSafeNext
<1>3. /\ w \in [0..N -> Links] /\ w[0] = next'[head]
      /\ \A i \in 1..N : w[i] = IF w[i - 1] = head THEN head ELSE next'[w[i - 1]]
  BY <1>2 DEF Walks, Follow
<1> QED
  BY <1>1, <1>3 DEF Listed

\* A step that changes no pointer of the list changes no walk.
LEMMA WalkSame ==
  ASSUME next \in [Links -> Links], (next \in [Links -> Links])', next'[head] = next[head],
         \A l \in Listed : next'[l] = next[l]
  PROVE  Listed' = Listed
<1>N. PICK N : N = Cardinality(Nodes)
  OBVIOUS
<1>w. PICK w : w = Walk
  OBVIOUS
<1>v. PICK v : v = Walk'
  OBVIOUS
<1>1. /\ N \in Nat /\ w[0] = next[head] /\ \A i \in 1..N : w[i] = Follow(w[i - 1])
      /\ Listed = {w[k] : k \in 0..N} \ {head}
  BY <1>N, <1>w, WalkFacts
<1>2. /\ v[0] = next'[head]
      /\ \A i \in 1..N : v[i] = IF v[i - 1] = head THEN head ELSE next'[v[i - 1]]
      /\ Listed' = {v[k] : k \in 0..N} \ {head}
  BY <1>N, <1>v, WalkFactsNext
<1> DEFINE S == {n \in Nat : n <= N => v[n] = w[n]}
<1>3. 0 \in S
  BY <1>1, <1>2
<1>4. ASSUME NEW n \in S PROVE n + 1 \in S
  <2> SUFFICES ASSUME n + 1 <= N PROVE v[n + 1] = w[n + 1]
    OBVIOUS
  <2>1. n \in 0..N /\ n + 1 \in 1..N /\ (n + 1) - 1 = n /\ v[n] = w[n]
    BY <1>1
  <2>2. w[n] # head => w[n] \in Listed
    BY <1>1, <2>1
  <2> QED
    BY <1>1, <1>2, <2>1, <2>2 DEF Follow
<1>5. S = Nat
  BY <1>3, <1>4, SetInd
<1>6. \A k \in 0..N : v[k] = w[k]
  BY <1>1, <1>5
<1> QED
  BY <1>1, <1>2, <1>6

\* The first link of a walk is on the list, or the list is empty.
LEMMA FirstListed ==
  ASSUME next \in [Links -> Links]
  PROVE  IF next[head] = head THEN Listed = {} ELSE next[head] \in Listed
<1>N. PICK N : N = Cardinality(Nodes)
  OBVIOUS
<1>w. PICK w : w = Walk
  OBVIOUS
<1>1. /\ N \in Nat /\ w[0] = next[head] /\ \A i \in 1..N : w[i] = Follow(w[i - 1])
      /\ Listed = {w[k] : k \in 0..N} \ {head}
  BY <1>N, <1>w, WalkFacts
<1>2. ASSUME next[head] = head PROVE \A k \in 0..N : w[k] = head
  <2> DEFINE S == {n \in Nat : n <= N => w[n] = head}
  <2>1. 0 \in S
    BY <1>1, <1>2
  <2>2. ASSUME NEW n \in S PROVE n + 1 \in S
    <3> SUFFICES ASSUME n + 1 <= N PROVE w[n + 1] = head
      OBVIOUS
    <3>1. n + 1 \in 1..N /\ (n + 1) - 1 = n /\ w[n] = head
      BY <1>1
    <3> QED
      BY <1>1, <3>1 DEF Follow
  <2>3. S = Nat
    BY <2>1, <2>2, SetInd
  <2> QED
    BY <1>1, <2>3
<1>3. 0 \in 0..N
  BY <1>1
<1> QED
  BY <1>1, <1>2, <1>3

\* Without its first node the list is one shorter, and no other is lost.
LEMMA WalkShorter ==
  ASSUME NEW L, NEW r, InChain(L, r), (next \in [Links -> Links])',
         next[head] \in L, next'[head] = next[next[head]],
         \A l \in L : next'[l] = next[l]
  PROVE  Listed' = Listed \ {next[head]}
<1>N. PICK N : N = Cardinality(Nodes)
  OBVIOUS
<1>w. PICK w : w = Walk
  OBVIOUS
<1>v. PICK v : v = Walk'
  OBVIOUS
<1>f. PICK f : f = next[head]
  OBVIOUS
<1>0. head \notin L /\ next \in [Links -> Links] /\ f # head /\ f \in L
  BY <1>f, ChainTypes
<1>1. /\ N \in Nat /\ w \in [0..N -> Links]
      /\ w[0] = f /\ \A i \in 1..N : w[i] = Follow(w[i - 1])
      /\ Listed = {w[k] : k \in 0..N} \ {head}
  BY <1>f, <1>N, <1>w, <1>0, WalkFacts
<1>2. /\ v[0] = next[f]
      /\ \A i \in 1..N : v[i] = IF v[i - 1] = head THEN head ELSE next'[v[i - 1]]
      /\ Listed' = {v[k] : k \in 0..N} \ {head}
  BY <1>f, <1>N, <1>v, WalkFactsNext
<1>3. w[N] = head /\ \A k \in 0..N : w[k] \in WithHead(L)
  BY <1>N, <1>w, WalkGoesDown
<1>4. N # 0
  BY <1>0, <1>1, <1>3
<1> DEFINE S == {n \in Nat : n + 1 <= N => v[n] = w[n + 1]}
<1>5. 0 \in S
  BY <1>0, <1>1, <1>2 DEF Follow
<1>6. ASSUME NEW n \in S PROVE n + 1 \in S
  <2> SUFFICES ASSUME (n + 1) + 1 <= N PROVE v[n + 1] = w[(n + 1) + 1]
    OBVIOUS
  <2>1. /\ n + 1 \in 0..N /\ n + 1 \in 1..N /\ (n + 1) + 1 \in 1..N
        /\ (n + 1) - 1 = n /\ ((n + 1) + 1) - 1 = n + 1 /\ v[n] = w[n + 1]
    BY <1>1
  <2>2. w[n + 1] # head => next'[w[n + 1]] = next[w[n + 1]]
    BY <1>3, <2>1 DEF WithHead
  <2>3. v[n + 1] = IF v[n] = head THEN head ELSE next'[v[n]]
    BY <1>2, <2>1
  <2>4. w[(n + 1) + 1] = Follow(w[n + 1])
    BY <1>1, <2>1
  <2> QED
    BY <2>1, <2>2, <2>3, <2>4 DEF Follow
<1>7. S = Nat
  BY <1>5, <1>6, SetInd
<1>8. \A k \in 0..N - 1 : v[k] = w[k + 1]
  BY <1>1, <1>7
<1>9. v[N] = head
  <2>1. N - 1 \in 0..N - 1 /\ (N - 1) + 1 = N /\ N \in 1..N
    BY <1>1, <1>4
  <2>2. v[N - 1] = head
    BY <1>3, <1>8, <2>1
  <2> QED
    BY <1>2, <2>1, <2>2
<1>10. \A k \in 1..N : w[k] # f
  <2> SUFFICES ASSUME NEW k \in 1..N, w[k] = f PROVE FALSE
    OBVIOUS
  <2>1. 0 \in 0..N /\ k \in 0..N /\ 0 < k
    BY <1>1
  <2>2. r[w[k]] < r[w[0]]
    BY <1>0, <1>N, <1>w, <2>1, WalkGoesDown
  <2>3. r[f] \in Nat
    BY <1>0, ChainTypes DEF WithHead
  <2> QED
    BY <1>1, <2>2, <2>3
<1>11. Listed' \subseteq Listed \ {f}
  <2> SUFFICES ASSUME NEW k \in 0..N, v[k] # head PROVE v[k] \in Listed \ {f}
    BY <1>2
  <2>1. k \in 0..N - 1 /\ k + 1 \in 1..N /\ k + 1 \in 0..N
    BY <1>1, <1>9
  <2> QED
    BY <1>1, <1>8, <1>10, <2>1
<1>12. Listed \ {f} \subseteq Listed'
  <2> SUFFICES ASSUME NEW k \in 0..N, w[k] # head, w[k] # f PROVE w[k] \in Listed'
    BY <1>1
  <2>1. k # 0 /\ k - 1 \in 0..N - 1 /\ k - 1 \in 0..N /\ (k - 1) + 1 = k
    BY <1>1
  <2>2. v[k - 1] = w[k]
    BY <1>8, <2>1
  <2> QED
    BY <1>2, <2>1, <2>2
<1> QED
  BY <1>f, <1>11, <1>12

-----------------------------------------------------------------------------
(* The set that the list implements *)

\* A close is under way.
Busy == \E c \in Cpus : Closing(c)

\* What no step changes leaves the set as it is.
LEMMA SetStays ==
  ASSUME Listed' = Listed, Busy' <=> Busy,
         pages' = pages \/ (Busy /\ \E l \in Listed : pages' = pages \ {l})
  PROVE  Set!Meet
<1>1. Busy => pages' \ Listed = pages \ Listed
  OBVIOUS
<1> QED
  BY <1>1 DEF Set!Meet, Busy

\* n is the node that an operation has in hand.
InHandOf(n) == \E c \in Cpus : node[c] = n /\ (Adding(c) \/ listPc[c] = "free")

\* Without list_adds that have met, the list has every node that is allocated but
\* those in hand.
LEMMA ListedIsAll ==
  ListIInv /\ ~addsMet /\ ~closeMet => Listed = {n \in nodes : ~InHandOf(n)}
<1> SUFFICES ASSUME ListIInv, ~addsMet, ~closeMet PROVE Listed = {n \in nodes : ~InHandOf(n)}
  OBVIOUS
<1>1. PICK L \in SUBSET nodes, r \in [Links -> Nat] : Chained(L, r)
  BY DEF ListIInv
<1>2. InChain(L, r) /\ NoneLost(L)
  BY <1>1 DEF InChain, ListIInv, Chained
<1>3. Listed = L
  BY <1>2, WalkSeesAll DEF NoneLost
<1>4. \A n \in nodes \ L : InHandOf(n)
  BY <1>2 DEF NoneLost, InHandOf
<1>5. ASSUME NEW c \in Cpus, Adding(c) \/ listPc[c] = "free" PROVE node[c] \notin L
  <2>1. CASE Adding(c)
    BY <1>2, <2>1 DEF InChain, Chained, Adder
  <2>2. CASE listPc[c] = "free"
    <3>1. Closing(c)
      BY <2>2 DEF Closing
    <3> QED
      BY <1>2, <2>2, <3>1 DEF InChain, Chained, Closer
  <2> QED
    BY <1>5, <2>1, <2>2
<1> QED
  BY <1>1, <1>3, <1>4, <1>5 DEF InHandOf

\* The same of the state after a step.
LEMMA ListedIsAllNext ==
  (ListIInv /\ ~addsMet /\ ~closeMet => Listed = {n \in nodes : ~InHandOf(n)})'
BY ListedIsAll, PTL

\* A chain has the nodes of the list.
LEMMA ListedInChain ==
  ASSUME NEW L, NEW r, InChain(L, r)
  PROVE  Listed \subseteq L /\ Listed \subseteq nodes
<1>1. DOMAIN Walk = 0..Cardinality(Nodes)
  BY ChainTypes, WalkIsWalk DEF Walks
<1> QED
  BY <1>1, WalkGoesDown, ChainTypes DEF Listed, WithHead

\* The next pointers after a step are those of links.
LEMMA NextTypes ==
  ASSUME ListIInv'
  PROVE  (next \in [Links -> Links])' /\ (~closeMet' => Listed' \subseteq nodes')
BY ListIsSafeNext DEF ListIInv, ListTypeOK, ListWhole

\* The steps of list_add before the node is published leave the set as it is.
LEMMA AddStepsSet ==
  ASSUME NEW L, NEW r, InChain(L, r), ListIInv', ~closeMet', NEW c \in Cpus,
         LoadHead(c) \/ NextPrev(c) \/ NewLinks(c)
  PROVE  Set!Meet
<1>1. Adding(c)
  BY DEF LoadHead, NextPrev, NewLinks, Adding
<1>2. /\ pages' = pages /\ Adding(c)' /\ \A d \in Cpus : d # c => listPc'[d] = listPc[d]
      /\ \A l \in Links : l # node[c] => next'[l] = next[l]
  <2>1. node[c] \in Links /\ listPc = [d \in Cpus |-> listPc[d]]
    BY ChainTypes
  <2> QED
    BY <2>1, ChainTypes DEF LoadHead, NextPrev, NewLinks, LinkNew, ListGoto, Adding, linkVars,
       allocVars
<1>3. \A d \in Cpus : ~Closing(d)
  BY <1>1, NoneCloses
<1>4. ~Busy /\ ~Busy'
  BY <1>2, <1>3 DEF Busy, Closing, Adding
<1>5. node[c] \in nodes \ L
  BY <1>1 DEF InChain, Chained, Adder
<1>6. Listed' = Listed
  <2>1. next'[head] = next[head] /\ \A l \in Listed : next'[l] = next[l]
    BY <1>2, <1>5, ListedInChain, ChainTypes DEF WithHead, Links
  <2> QED
    BY <2>1, NextTypes, WalkSame, ChainTypes
<1> QED
  BY <1>2, <1>4, <1>6, SetStays

\* A new node stands for the page taken, and is not on the list yet.
LEMMA TakeSet ==
  ASSUME NEW L, NEW r, InChain(L, r), ListIInv', ~closeMet', NEW c \in Cpus, KmallocNode(c)
  PROVE  \E f \in Nodes : Set!Take(f)
<1>1. PICK f \in Nodes \ nodes :
        /\ pages' = pages \cup {f} /\ next' = [next EXCEPT ![f] = f]
  BY DEF KmallocNode
<1>2. /\ listPc' = [listPc EXCEPT ![c] = "add"] /\ \A d \in Cpus : ~Closing(d)
  BY DEF KmallocNode, ListGoto
<1>3. ~Busy /\ ~Busy'
  BY <1>2, ChainTypes DEF Busy, Closing
<1>4. f \notin pages
  BY <1>1 DEF InChain, Chained, PagesMatch
<1>5. Listed' = Listed
  <2>1. next'[head] = next[head] /\ \A l \in Listed : next'[l] = next[l]
    BY <1>1, ListedInChain, ChainTypes DEF Links
  <2> QED
    BY <2>1, NextTypes, WalkSame, ChainTypes
<1> QED
  BY <1>1, <1>3, <1>4, <1>5 DEF Set!Take, Busy

\* The node published is the first of the list; without list_adds that have met,
\* it is the only one to come.
LEMMA AddSet ==
  ASSUME ListIInv, NEW L, NEW r, InChain(L, r), ListIInv', ~closeMet, ~closeMet',
         NEW c \in Cpus, Publish(c)
  PROVE  \E f \in Nodes : Set!Add(f) \/ Set!AddInto(f)
<1>1. /\ listPc[c] = "publish" /\ listPc' = [listPc EXCEPT ![c] = "idle"]
      /\ next' = [next EXCEPT ![head] = node[c]]
      /\ node' = [node EXCEPT ![c] = head]
      /\ UNCHANGED <<nodes, pages, addsMet>> /\ Adding(c)
  BY DEF Publish, ListGoto, allocVars, metVars, Adding
<1>2. /\ \A d \in Cpus : listPc'[d] = IF d = c THEN "idle" ELSE listPc[d]
      /\ \A d \in Cpus : node'[d] = IF d = c THEN head ELSE node[d]
      /\ next'[head] = node[c]
  BY <1>1, ChainTypes
<1>3. \A d \in Cpus : ~Closing(d) /\ ~Closing(d)' /\ ~PageGone(d)
  <2>1. \A d \in Cpus : ~Closing(d)
    BY <1>1, NoneCloses
  <2> QED
    BY <1>2, <2>1 DEF Closing, PageGone
<1>4. ~Busy /\ ~Busy' /\ pages = nodes /\ pages' = nodes /\ Listed \subseteq nodes
  BY <1>1, <1>3, ListedInChain DEF Busy, InChain, Chained, PagesMatch
<1>f. PICK f : f = node[c]
  OBVIOUS
<1>5. /\ f \in nodes \ L /\ f \in Nodes /\ f # head
      /\ \A d \in Cpus : Adding(d) /\ node[d] = f => d = c
  BY <1>f, <1>1, ChainTypes DEF InChain, Chained, Adder
<1>6. f \notin Listed
  BY <1>5, ListedInChain
<1>7. f \in Listed' /\ Listed' \subseteq nodes
  <2>1. f \in Listed'
    <3>v. PICK v : v = Walk'
      OBVIOUS
    <3>1. /\ Cardinality(Nodes) \in Nat /\ v[0] = f
          /\ Listed' = {v[k] : k \in 0..Cardinality(Nodes)} \ {head}
      BY <1>f, <1>2, <3>v, NextTypes, WalkFactsNext
    <3> QED
      BY <1>5, <3>1
  <2> QED
    BY <1>1, <2>1, NextTypes
<1>8. CASE addsMet
  BY <1>4, <1>5, <1>6, <1>7, <1>8 DEF Set!AddInto, Busy
<1>9. CASE ~addsMet
  <2>1. Listed = {n \in nodes : ~InHandOf(n)} /\ Listed' = {n \in nodes : ~InHandOf(n)'}
    BY <1>1, <1>9, ListedIsAll, ListedIsAllNext
  <2>2. \A d \in Cpus : listPc[d] # "free" /\ listPc'[d] # "free"
    BY <1>3 DEF Closing
  <2>3. \A d \in Cpus : Adding(d)' <=> Adding(d) /\ d # c
    BY <1>1, <1>2 DEF Adding
  <2>4. \A n \in nodes : InHandOf(n)' <=> InHandOf(n) /\ n # f
    BY <1>f, <1>1, <1>2, <1>5, <2>2, <2>3 DEF InHandOf
  <2>5. Listed' = Listed \cup {f}
    BY <1>5, <1>6, <2>1, <2>4
  <2> QED
    BY <1>4, <1>5, <1>6, <2>5 DEF Set!Add, Busy
<1> QED
  BY <1>8, <1>9

\* The close begins alone, and the set is empty.
LEMMA FreeAllSet ==
  ASSUME NEW L, NEW r, InChain(L, r), ListIInv', ~closeMet', NEW c \in Cpus, BeginClose(c)
  PROVE  Set!FreeAll
<1>1. /\ listPc' = [listPc EXCEPT ![c] = "first"] /\ next' = next /\ pages' = pages
      /\ \A d \in Cpus : ~Closing(d)
  BY DEF BeginClose, ListGoto, linkVars, allocVars
<1>2. ~Busy /\ Busy'
  BY <1>1, ChainTypes DEF Busy, Closing
<1>3. Listed' = Listed
  BY <1>1, NextTypes, WalkSame, ChainTypes
<1> QED
  BY <1>1, <1>2, <1>3 DEF Set!FreeAll, Busy

\* The steps of a close that move no next pointer leave the set as it is.
LEMMA WalkStepsSet ==
  ASSUME NEW L, NEW r, InChain(L, r), ListIInv', ~closeMet', NEW c \in Cpus,
         FirstNode(c) \/ UnlinkPrev(c)
  PROVE  Set!Meet
<1>1. next' = next /\ pages' = pages /\ Closing(c) /\ Closing(c)'
  BY ChainTypes DEF FirstNode, UnlinkPrev, ListGoto, Closing, linkVars, allocVars
<1>2. Busy /\ Busy'
  BY <1>1 DEF Busy
<1>3. Listed' = Listed
  BY <1>1, NextTypes, WalkSame, ChainTypes
<1> QED
  BY <1>1, <1>2, <1>3, SetStays

\* A close ends with nothing left in the list.
LEMMA NoteTempSet ==
  ASSUME NEW L, NEW r, InChain(L, r), ListIInv', ~closeMet', NEW c \in Cpus, NoteTemp(c)
  PROVE  Set!Meet
<1>1. next' = next /\ pages' = pages /\ listPc[c] = "temp" /\ Closing(c)
  BY DEF NoteTemp, Closing, linkVars, allocVars
<1>2. Listed' = Listed /\ Busy
  BY <1>1, NextTypes, WalkSame, ChainTypes DEF Busy
<1>3. node[c] = next[head] /\ \A d \in Cpus : d # c => ~Closing(d)
  BY <1>1 DEF InChain, Chained, Closer, Closing
<1>4. CASE node[c] = head
  <2>1. \A d \in Cpus : ~Closing(d)'
    BY <1>3, <1>4, ChainTypes DEF NoteTemp, ListGoto, Closing
  <2>2. Listed = {} /\ ~Busy'
    BY <1>3, <1>4, <2>1, FirstListed, ChainTypes DEF Busy
  <2> QED
    BY <1>1, <1>2, <2>2 DEF Set!Meet, Busy
<1>5. CASE node[c] # head
  <2>1. Closing(c)'
    BY <1>5, ChainTypes DEF NoteTemp, ListGoto, Closing
  <2> QED
    BY <1>1, <1>2, <2>1, SetStays DEF Busy
<1> QED
  BY <1>4, <1>5

\* The page given back is the first of the list, and was given back when the close
\* began.
LEMMA FreePageSet ==
  ASSUME NEW L, NEW r, InChain(L, r), ListIInv', ~closeMet', NEW c \in Cpus, FreePage(c)
  PROVE  Set!Meet
<1>1. /\ next' = next /\ pages' = pages \ {node[c]} /\ listPc[c] = "page"
      /\ Closing(c) /\ Closing(c)'
  BY ChainTypes DEF FreePage, ListGoto, Closing, linkVars
<1>2. Busy /\ Busy' /\ Listed' = Listed
  BY <1>1, NextTypes, WalkSame, ChainTypes DEF Busy
<1>3. node[c] = next[head] /\ node[c] \in L
  BY <1>1 DEF InChain, Chained, Closer, Closing, Unlinking
<1>4. node[c] \in Listed
  BY <1>3, FirstListed, ChainTypes
<1> QED
  BY <1>1, <1>2, <1>4, SetStays

\* The node that leaves the list has no page any more.
LEMMA UnlinkNextSet ==
  ASSUME NEW L, NEW r, InChain(L, r), ListIInv', ~closeMet', NEW c \in Cpus, UnlinkNext(c)
  PROVE  Set!Meet
<1>1. /\ listPc[c] = "unnext" /\ next' = [next EXCEPT ![before[c]] = after[c]]
      /\ pages' = pages /\ Closing(c) /\ Closing(c)'
  BY ChainTypes DEF UnlinkNext, Unlink, ListGoto, Closing, allocVars
<1>2. /\ node[c] = next[head] /\ node[c] \in L /\ temp[c] = next[node[c]]
      /\ before[c] = head /\ after[c] = temp[c]
  BY <1>1 DEF InChain, Chained, Closer, Closing, Unlinking
<1>3. Listed' = Listed \ {node[c]}
  <2>1. next'[head] = next[next[head]] /\ \A l \in L : next'[l] = next[l]
    BY <1>1, <1>2, ChainTypes
  <2> QED
    BY <1>2, <2>1, NextTypes, WalkShorter
<1>4. node[c] \notin pages
  BY <1>1 DEF InChain, Chained, PagesMatch, PageGone
<1>5. Busy /\ Busy' /\ pages' \ Listed' = pages \ Listed
  BY <1>1, <1>3, <1>4 DEF Busy
<1> QED
  BY <1>5 DEF Set!Meet, Busy

\* kfree is of a node that has left the list.
LEMMA KfreeSet ==
  ASSUME NEW L, NEW r, InChain(L, r), ListIInv', ~closeMet', NEW c \in Cpus, KfreeNode(c)
  PROVE  Set!Meet
<1>1. /\ listPc[c] = "free" /\ next' = [next EXCEPT ![node[c]] = head]
      /\ pages' = pages /\ Closing(c) /\ Closing(c)'
  BY ChainTypes DEF KfreeNode, ListGoto, Closing
<1>2. node[c] \in nodes \ L
  BY <1>1 DEF InChain, Chained, Closer, Closing
<1>3. Listed' = Listed
  <2>1. next'[head] = next[head] /\ \A l \in Listed : next'[l] = next[l]
    BY <1>1, <1>2, ListedInChain, ChainTypes DEF WithHead, Links
  <2> QED
    BY <2>1, NextTypes, WalkSame, ChainTypes
<1> QED
  BY <1>1, <1>3, SetStays DEF Busy

\* Every step on the list is one on the set, or leaves the set as it is.
LEMMA SetStep ==
  ListIInv /\ ListIInv' /\ [ListNext]_listVars => [Set!SetNext]_(Set!setVars)
<1> SUFFICES ASSUME ListIInv, ListIInv', [ListNext]_listVars PROVE [Set!SetNext]_(Set!setVars)
  OBVIOUS
<1>1. CASE UNCHANGED listVars
  <2>1. Listed' = Listed
    BY <1>1, NextTypes, WalkSame DEF listVars, linkVars, ListIInv, ListTypeOK
  <2> QED
    BY <1>1, <2>1 DEF listVars, allocVars, metVars, Set!setVars, Closing
<1>2. CASE closeMet'
  BY <1>2 DEF Set!SetNext
<1>3. CASE ~closeMet' /\ ListNext
  <2>1. ~closeMet /\ (addsMet => addsMet')
    <3>1. ASSUME NEW c \in Cpus, KmallocNode(c) \/ BeginClose(c)
          PROVE  ~closeMet /\ (addsMet => addsMet')
      <4>1. CASE KmallocNode(c)
        <5>1. /\ addsMet' = (addsMet \/ \E d \in Cpus : Adding(d))
              /\ closeMet' = (closeMet \/ \E d \in Cpus : Closing(d))
          BY <4>1 DEF KmallocNode
        <5> QED
          BY <1>3, <5>1
      <4>2. CASE BeginClose(c)
        BY <1>3, <4>2 DEF BeginClose
      <4> QED
        BY <3>1, <4>1, <4>2
    <3>2. ASSUME NEW c \in Cpus, LoadHead(c) \/ NextPrev(c) \/ NewLinks(c) \/ Publish(c)
          PROVE  ~closeMet /\ (addsMet => addsMet')
      BY <1>3, <3>2 DEF LoadHead, NextPrev, NewLinks, Publish, metVars
    <3>3. ASSUME NEW c \in Cpus, FirstNode(c) \/ NoteTemp(c) \/ FreePage(c) \/ UnlinkPrev(c)
                                 \/ UnlinkNext(c) \/ KfreeNode(c)
          PROVE  ~closeMet /\ (addsMet => addsMet')
      BY <1>3, <3>3 DEF FirstNode, NoteTemp, FreePage, UnlinkPrev, UnlinkNext, KfreeNode, metVars
    <3> QED
      BY <1>3, <3>1, <3>2, <3>3 DEF ListNext
  <2>2. PICK L \in SUBSET nodes, r \in [Links -> Nat] : Chained(L, r)
    BY <2>1 DEF ListIInv
  <2>3. InChain(L, r)
    BY <2>1, <2>2 DEF InChain, ListIInv
  <2>4. PICK c \in Cpus :
          \/ KmallocNode(c) \/ LoadHead(c) \/ NextPrev(c) \/ NewLinks(c) \/ Publish(c)
          \/ BeginClose(c) \/ FirstNode(c) \/ NoteTemp(c) \/ FreePage(c) \/ UnlinkPrev(c)
          \/ UnlinkNext(c) \/ KfreeNode(c)
    BY <1>3 DEF ListNext
  <2>5. CASE LoadHead(c) \/ NextPrev(c) \/ NewLinks(c)
    BY <1>3, <2>1, <2>3, <2>5, AddStepsSet DEF Set!SetNext
  <2>6. CASE KmallocNode(c)
    BY <1>3, <2>1, <2>3, <2>6, TakeSet DEF Set!SetNext
  <2>7. CASE Publish(c)
    BY <1>3, <2>1, <2>3, <2>7, AddSet DEF Set!SetNext
  <2>8. CASE BeginClose(c)
    BY <1>3, <2>1, <2>3, <2>8, FreeAllSet DEF Set!SetNext
  <2>9. CASE FirstNode(c) \/ UnlinkPrev(c)
    BY <1>3, <2>1, <2>3, <2>9, WalkStepsSet DEF Set!SetNext
  <2>10. CASE NoteTemp(c) \/ FreePage(c) \/ UnlinkNext(c) \/ KfreeNode(c)
    BY <1>3, <2>1, <2>3, <2>10, NoteTempSet, FreePageSet, UnlinkNextSet, KfreeSet DEF Set!SetNext
  <2> QED
    BY <2>4, <2>5, <2>6, <2>7, <2>8, <2>9, <2>10
<1> QED
  BY <1>1, <1>2, <1>3

\* The list begins empty.
LEMMA SetInitial ==
  ListInit => Set!SetInit
<1> SUFFICES ASSUME ListInit PROVE Set!SetInit
  OBVIOUS
<1>1. next \in [Links -> Links] /\ next[head] = head
  BY DEF ListInit, Links
<1>2. Listed = {} /\ \A c \in Cpus : ~Closing(c)
  BY <1>1, FirstListed DEF ListInit, Closing
<1> QED
  BY <1>2 DEF ListInit, Set!SetInit

\* ref_page_list, pointer by pointer and without a lock, is the set of pages that
\* Paging has, as long as no close meets another operation: an add puts one page
\* in, and a close gives back those in it and no other, also after adds have met.
THEOREM ListIsPageSet ==
  ListSpec => ImplementsPageSet
<1>1. ListIInv /\ [ListNext]_listVars /\ ListIInv' => [Set!SetNext]_(Set!setVars)
  BY SetStep
<1> QED
  BY <1>1, SetInitial, ListInductive, PTL DEF ListSpec, ImplementsPageSet, Set!SetSpec
=============================================================================
