------------------------------ MODULE TreePlan ------------------------------
(***************************************************************************)
(* The tree over the chunks of a history, across index() calls: chunks     *)
(* arrive, plan_hierarchy() groups leaves under parents it keeps or makes, *)
(* and index() publishes as many new leaves as its model calls pay for.    *)
(*                                                                         *)
(* A chunk is its number.  Each leaf and each new parent costs one call.   *)
(* The fan-out and the limit of calls are settings of an open() that no    *)
(* file keeps: each call has its own.                                      *)
(* Races between calls are in HistoryStore: here one index() runs at a     *)
(* time.                                                                   *)
(***************************************************************************)
EXTENDS Integers, SequencesExt

CONSTANTS
    FanOuts,        \* tree_max_children, of any open()
    Limits,         \* provider_attempt_limit_index, of any open()
    MaxChunks,      \* bound on the chunks of the history
    MaxRebuilds,    \* bound on rebuilds and clears
    NoNode          \* no parent

ASSUME TreeAssumption ==
    /\ FanOuts \subseteq Nat \ {0, 1}
    /\ Limits \subseteq Nat \ {0}
    /\ MaxChunks \in Nat
    /\ MaxRebuilds \in Nat
    /\ NoNode \notin Nat

VARIABLES
    chunks,     \* how many chunks the history has
    indexed,    \* how many of them the published tree covers
    nodes,      \* the rows of nodes, by node_id
    told,       \* history: the children that the summary of each parent describes
    fanOut,     \* history: the fan-out it was published with, any when empty
    rebuilds    \* rebuilds and clears so far

treeVars == <<chunks, indexed, nodes, told, fanOut, rebuilds>>

Leaf(c) == [parent |-> NoNode, order |-> 0, first |-> c, last |-> c, leaf |-> TRUE]

TreeInit ==
    /\ chunks = 0
    /\ indexed = 0
    /\ nodes = <<>>
    /\ told = <<>>
    /\ fanOut \in FanOuts
    /\ rebuilds = 0

-----------------------------------------------------------------------------
(* plan_hierarchy *)

(* The list f, which TLC evaluates once and not at every use. *)
Listed(f) == <<>> \o f

(* The members of a set by increasing key. *)
SortedBy(key, set) ==
    Listed([i \in 1..Cardinality(set) |->
                CHOOSE a \in set : Cardinality({b \in set : key[b] < key[a]}) = i - 1])

ChildSet(tree, n) == {c \in DOMAIN tree : tree[c].parent = n}

Children(tree, n) == SortedBy([c \in DOMAIN tree |-> tree[c].order], ChildSet(tree, n))

Tops(tree) == Children(tree, NoNode)

Leaves(tree) == {n \in DOMAIN tree : tree[n].leaf}

(* Variant: a parent is kept when it starts with the same child. *)
ReusableByFirst(tree, group) ==
    {n \in DOMAIN tree : ~tree[n].leaf /\ Head(Children(tree, n)) = Head(group)}

(* Variant: every parent is made anew. *)
ReusableNever(tree, group) == {}

(* The published parent of exactly this list of children. *)
Reusable(tree, group) ==
    {n \in DOMAIN tree : ~tree[n].leaf /\ Children(tree, n) = group}

(* Variant: a group takes one child too many. *)
GroupsOfOneMore(fan, layer) ==
    [i \in 1..((Len(layer) + fan) \div (fan + 1)) |->
        SubSeq(layer, (i - 1) * (fan + 1) + 1,
               IF i * (fan + 1) < Len(layer) THEN i * (fan + 1) ELSE Len(layer))]

GroupsOf(fan, layer) ==
    [i \in 1..((Len(layer) + fan - 1) \div fan) |->
        SubSeq(layer, (i - 1) * fan + 1, IF i * fan < Len(layer) THEN i * fan ELSE Len(layer))]

Highest(ids) == Max(ids \cup {0})

PlaceIn(list, n) == CHOOSE i \in DOMAIN list : list[i] = n

Numbered(row, list, n, parent) ==
    [row EXCEPT !.parent = parent, !.order = PlaceIn(list, n) - 1]

Number(tree, list, parent) ==
    [n \in DOMAIN tree |->
        IF n \in ToSet(list) THEN Numbered(tree[n], list, n, parent) ELSE tree[n]]

(* What goes up for each group: its only node, the parent it had, or a new *)
(* one.                                                                    *)
Above(fan, previous, plan) ==
    LET groups == GroupsOf(fan, plan.layer)
        top == Highest(DOMAIN previous \cup DOMAIN plan.nodes)
        ParentOf(i) == IF Reusable(previous, groups[i]) # {}
                       THEN CHOOSE n \in Reusable(previous, groups[i]) : TRUE
                       ELSE top + i
    IN Listed([i \in DOMAIN groups |->
                  IF Len(groups[i]) = 1 THEN Head(groups[i]) ELSE ParentOf(i)])

ParentRow(previous, tree, group, n) ==
    IF n \in DOMAIN previous
    THEN [previous[n] EXCEPT !.parent = NoNode]
    ELSE [parent |-> NoNode, order |-> 0, leaf |-> FALSE,
          first |-> tree[Head(group)].first, last |-> tree[Last(group)].last]

Plural(groups) == {i \in DOMAIN groups : Len(groups[i]) > 1}

(* The nodes with each group numbered under what is above it. *)
WithParents(previous, tree, groups, above) ==
    LET GroupOf(n) == CHOOSE i \in Plural(groups) : n \in ToSet(groups[i])
        Under(n) == CHOOSE i \in Plural(groups) : above[i] = n
    IN [n \in DOMAIN tree \cup ToSet(above) |->
            IF n \notin DOMAIN tree
            THEN ParentRow(previous, tree, groups[Under(n)], n)
            ELSE IF \E i \in Plural(groups) : n \in ToSet(groups[i])
            THEN Numbered(tree[n], groups[GroupOf(n)], n, above[GroupOf(n)])
            ELSE tree[n]]

(* The new parents are to be summarised. *)
WithSummaries(previous, summaries, groups, above) ==
    LET made == {i \in Plural(groups) : above[i] \notin DOMAIN previous} IN
        [n \in DOMAIN summaries \cup {above[i] : i \in made} |->
            IF n \in DOMAIN summaries THEN summaries[n]
            ELSE groups[CHOOSE i \in made : above[i] = n]]

(* One pass over a layer.  Its groups share no node, so that one pass      *)
(* gives all of them their parents at once.                                *)
Grouped(fan, previous, plan) ==
    LET groups == GroupsOf(fan, plan.layer)
        above == Above(fan, previous, plan)
    IN [nodes |-> WithParents(previous, plan.nodes, groups, above),
        layer |-> above,
        summaries |-> WithSummaries(previous, plan.summaries, groups, above)]

Pass(fan, previous, plan) ==
    IF Len(plan.layer) <= fan THEN plan ELSE Grouped(fan, previous, plan)

(* Passes until a layer fits under the top: each leaves fewer nodes, so    *)
(* that as many passes as there are nodes are enough.                      *)
Layered(fan, previous, start) ==
    FoldLeft(LAMBDA plan, n : Pass(fan, previous, plan), start, start.layer)

Start(leaves) ==
    [nodes |-> [n \in DOMAIN leaves |-> [leaves[n] EXCEPT !.parent = NoNode]],
     layer |-> SortedBy([n \in DOMAIN leaves |-> leaves[n].first], DOMAIN leaves),
     summaries |-> <<>>]

Plan(fan, leaves, previous) ==
    LET plan == Layered(fan, previous, Start(leaves)) IN
        [plan EXCEPT !.nodes = Number(@, plan.layer, NoNode)]

-----------------------------------------------------------------------------
(* index() *)

(* Leaves for the next count chunks after done, beside those of the tree. *)
WithNew(previous, done, count) ==
    LET top == Highest(DOMAIN previous) IN
        [n \in Leaves(previous) \cup (top + 1)..(top + count) |->
            IF n \in DOMAIN previous THEN previous[n] ELSE Leaf(done + n - top)]

Proposal(fan, previous, done, count) == Plan(fan, WithNew(previous, done, count), previous)

(* Variant: what uses the limit up is not paid for. *)
PayableBelow(fan, previous, done, limit) ==
    {k \in 1..(chunks - done) :
        k + Cardinality(DOMAIN Proposal(fan, previous, done, k).summaries) < limit}

(* The counts of new leaves that the limit pays for, summaries included. *)
Payable(fan, previous, done, limit) ==
    {k \in 1..(chunks - done) :
        k + Cardinality(DOMAIN Proposal(fan, previous, done, k).summaries) <= limit}

(* The most that can be paid for is summarised and published. *)
Publish(fan, previous, done, limit) ==
    LET count == Max(Payable(fan, previous, done, limit))
        plan == Proposal(fan, previous, done, count)
    IN /\ nodes' = plan.nodes
       /\ told' = [n \in {m \in DOMAIN plan.nodes : ~plan.nodes[m].leaf} |->
                      IF n \in DOMAIN plan.summaries THEN plan.summaries[n] ELSE told[n]]
       /\ indexed' = done + count
       /\ fanOut' = fan

Arrive ==
    /\ chunks < MaxChunks
    /\ chunks' = chunks + 1
    /\ UNCHANGED <<indexed, nodes, told, fanOut, rebuilds>>

(* With no payable count it reports partial and changes nothing. *)
Index(fan, limit) ==
    /\ indexed < chunks
    /\ Payable(fan, nodes, indexed, limit) # {}
    /\ Publish(fan, nodes, indexed, limit)
    /\ UNCHANGED <<chunks, rebuilds>>

(* rebuild=True: no previous node, so every summary is bought again. *)
Rebuild(fan, limit) ==
    /\ rebuilds < MaxRebuilds
    /\ chunks > 0
    /\ Payable(fan, <<>>, 0, limit) # {}
    /\ Publish(fan, <<>>, 0, limit)
    /\ rebuilds' = rebuilds + 1
    /\ UNCHANGED chunks

(* clear_history() leaves no chunk and no node. *)
Clear ==
    /\ rebuilds < MaxRebuilds
    /\ rebuilds' = rebuilds + 1
    /\ chunks' = 0 /\ indexed' = 0 /\ nodes' = <<>> /\ told' = <<>>
    /\ fanOut' \in FanOuts

TreeNext ==
    \/ Arrive
    \/ Clear
    \/ \E fan \in FanOuts, limit \in Limits : Index(fan, limit) \/ Rebuild(fan, limit)

TreeSpec == TreeInit /\ [][TreeNext]_treeVars

-----------------------------------------------------------------------------
InnerNodes == {n \in DOMAIN nodes : ~nodes[n].leaf}

(* Each starts where the one before it ends. *)
Adjacent(list) ==
    \A i \in 1..(Len(list) - 1) : nodes[list[i]].last + 1 = nodes[list[i + 1]].first

(* The levels of parents: the first chunk is below one of each. *)
Levels == Cardinality({n \in InnerNodes : nodes[n].first = 1})

(* Navigation from the top reaches every indexed chunk, once and in the    *)
(* order of the conversation, over no more summaries at a time than the    *)
(* fan-out it was published with, whatever sequence of partial indexing,   *)
(* rebuilds, clears and openings with another fan-out made the tree.       *)
(* tree.py: plan_hierarchy.                                                *)
TreeIsWhole ==
    /\ Len(Tops(nodes)) <= fanOut
    /\ Adjacent(Tops(nodes))
    /\ \A n \in DOMAIN nodes : nodes[n].parent \in InnerNodes \cup {NoNode}
    /\ \A n \in InnerNodes :
          LET list == Children(nodes, n) IN
             /\ Len(list) \in 2..fanOut
             /\ Adjacent(list)
             /\ nodes[n].first = nodes[Head(list)].first
             /\ nodes[n].last = nodes[Last(list)].last
    /\ {nodes[n].first : n \in Leaves(nodes)} = 1..indexed
    /\ Cardinality(Leaves(nodes)) = indexed

(* The summary of a parent kept from an earlier tree still describes just  *)
(* the children it has: a reader that prunes by it prunes nothing it was   *)
(* not told of.  tree.py: "Unchanged child lists reuse their published     *)
(* parent and summary."                                                    *)
SummariesDescribeChildren ==
    \A n \in InnerNodes : told[n] = Children(nodes, n)

(* index() does not stall: it can publish a next chunk if the limit pays   *)
(* for a leaf, a parent at each level and one above, as long as the        *)
(* fan-out is that of the published tree.  With another one no parent may  *)
(* be worth keeping, and all summaries are bought again: then a limit      *)
(* above the number of indexed chunks is enough, and with less only a      *)
(* rebuild is sure to go on.  index.py: the loop that lowers count until   *)
(* leaves and summaries fit.                                               *)
BudgetBuysProgress ==
    \A fan \in FanOuts, limit \in Limits :
        /\ indexed < chunks
        /\ limit > indexed \/ (fan = fanOut /\ limit > Levels + 1)
        => Payable(fan, nodes, indexed, limit) # {}
=============================================================================
